---- MODULE Spec2Model ----
(***************************************************************************)
(* Model of the Azure DevOps MCP server's tool registry: the enablement    *)
(* gate of src/src/tools.ts (allow-list and deny-list variants), the       *)
(* family registrars of src/src/tools/repos.ts and src/src/tools/search.ts *)
(* and the tool handlers those registrars install.                         *)
(***************************************************************************)
EXTENDS Integers, Sequences, FiniteSets, TLC

VARIABLES
  variant,        \* which configureAllTools is built: "allow" or "deny"
  env,            \* the override string, as a sequence of lexemes
  disabledTools,  \* the Set<string> built by configureAllTools
  registered,     \* names passed to server.tool so far
  gpc,            \* position of configureAllTools
  tool,           \* the tool whose handler is running
  args,           \* the validated input of the invocation
  hpc,            \* position of the handler: idle / running / returned / thrown
  site,           \* the await the handler is suspended at
  vals,           \* values the handler's awaits have returned so far
  envelope,       \* the value the handler returned
  thrown,         \* the error the handler's promise rejected with
  failedAt,       \* the await that failed, "none" when none did
  calls,          \* the upstream calls the invocation has issued, in order
  orgName,        \* the orgName field of the AzureDevOpsClientManager
  configFile,     \* the organization name saved in the config file, if any
  fn,             \* the helper function being applied on its own
  fnArg,          \* its argument
  fnResult        \* what it returned or threw

gateVars == <<variant, env, disabledTools, registered, gpc>>
handlerVars == <<tool, args, hpc, site, vals, envelope, thrown, failedAt, calls>>
managerVars == <<orgName, configFile>>
fnVars == <<fn, fnArg, fnResult>>
vars == <<variant, env, disabledTools, registered, gpc, tool, args, hpc, site, vals, envelope, thrown, failedAt, calls, orgName, configFile, fn, fnArg, fnResult>>

----------------------------------------------------------------------------
(* Bounds *)

\* longest override string, in lexemes
MaxEnvLen == 4

\* longest collection an upstream call returns
MaxItems == 2

----------------------------------------------------------------------------
(* Tool tables *)

REPO_TOOLS ==
  [ get_azure_devops_repositories |-> "get_azure_devops_repositories",
    get_azure_devops_pull_request_by_id |-> "get_azure_devops_pull_request_by_id",
    get_azure_devops_changes_by_commit |-> "get_azure_devops_changes_by_commit",
    get_azure_devops_item_content_by_commit |-> "get_azure_devops_item_content_by_commit",
    get_azure_devops_content_by_objectid |-> "get_azure_devops_content_by_objectid",
    list_azure_devops_pull_request_threads |-> "list_azure_devops_pull_request_threads",
    list_azure_devops_pull_request_comments_by_thread |-> "list_azure_devops_pull_request_comments_by_thread",
    list_pull_requests_by_repo |-> "repo_list_pull_requests_by_repo",
    list_pull_requests_by_project |-> "repo_list_pull_requests_by_project",
    list_branches_by_repo |-> "repo_list_branches_by_repo",
    list_my_branches_by_repo |-> "repo_list_my_branches_by_repo",
    get_branch_by_name |-> "repo_get_branch_by_name",
    create_pull_request |-> "repo_create_pull_request",
    update_pull_request_status |-> "repo_update_pull_request_status",
    update_pull_request_reviewers |-> "repo_update_pull_request_reviewers",
    reply_to_comment |-> "repo_reply_to_comment",
    resolve_comment |-> "repo_resolve_comment",
    search_commits |-> "repo_search_commits",
    list_pull_requests_by_commits |-> "repo_list_pull_requests_by_commits" ]

SEARCH_TOOLS ==
  [ search_azure_devops_code |-> "search_azure_devops_code",
    search_azure_devops_wiki |-> "search_azure_devops_wiki",
    search_azure_devops_workitem |-> "search_azure_devops_workitem" ]

\* The tables of the families whose files are imported by tools.ts only.
CORE_TOOLS ==
  [ list_azure_devops_projects |-> "list_azure_devops_projects",
    get_azure_devops_identity_ids |-> "get_azure_devops_identity_ids",
    list_project_teams |-> "core_list_project_teams" ]

WORK_TOOLS == [ list_team_iterations |-> "work_list_team_iterations" ]

BUILD_TOOLS == [ get_definitions |-> "build_get_definitions" ]

WORKITEM_TOOLS == [ get_work_item |-> "wit_get_work_item" ]

RELEASE_TOOLS == [ get_release_definitions |-> "release_get_definitions" ]

WIKI_TOOLS == [ list_wikis |-> "wiki_list_wikis" ]

Test_Plan_Tools == [ list_test_plans |-> "testplan_list_test_plans" ]

\* Object.values(o), as the set of the table's values
ObjectValues(o) == { o[k] : k \in DOMAIN o }

TOOLS_CATEGORY_MAP ==
  [ category_core |-> CORE_TOOLS,
    category_work |-> WORK_TOOLS,
    category_build |-> BUILD_TOOLS,
    category_repo |-> REPO_TOOLS,
    category_workitem |-> WORKITEM_TOOLS,
    category_release |-> RELEASE_TOOLS,
    category_wiki |-> WIKI_TOOLS,
    category_testplan |-> Test_Plan_Tools,
    category_search |-> SEARCH_TOOLS ]

TOOLS_CATEGORY_MAP_DenyList ==
  [ category_work |-> WORK_TOOLS,
    category_build |-> BUILD_TOOLS,
    category_repo |-> REPO_TOOLS,
    category_workitem |-> WORKITEM_TOOLS,
    category_release |-> RELEASE_TOOLS,
    category_wiki |-> WIKI_TOOLS,
    category_testplan |-> Test_Plan_Tools ]

DEFAULT_ENABLED_TOOLS ==
  << CORE_TOOLS.list_azure_devops_projects,
     CORE_TOOLS.get_azure_devops_identity_ids,
     SEARCH_TOOLS.search_azure_devops_code,
     REPO_TOOLS.get_azure_devops_repositories,
     REPO_TOOLS.get_azure_devops_pull_request_by_id,
     REPO_TOOLS.get_azure_devops_changes_by_commit,
     REPO_TOOLS.get_azure_devops_content_by_objectid,
     REPO_TOOLS.get_azure_devops_item_content_by_commit,
     REPO_TOOLS.list_azure_devops_pull_request_threads,
     REPO_TOOLS.list_azure_devops_pull_request_comments_by_thread >>

----------------------------------------------------------------------------
(* The override string.  A string is a sequence of lexemes: a blank, a     *)
(* comma, or a run of name characters.                                      *)

Blank == " "
Comma == ","

Words ==
  { "category_repo", "category_search",
    "get_azure_devops_pull_request_by_id", "search_azure_devops_wiki",
    "list_pull_requests_by_repo" }

Lexemes == {Blank, Comma} \cup Words

EnvStrings == UNION { [1..n -> Lexemes] : n \in 0..MaxEnvLen }

\* String.prototype.split(","): the pieces between commas, "" included
RECURSIVE Split(_, _)
Split(s, cur) ==
  IF s = <<>> THEN <<cur>>
  ELSE IF Head(s) = Comma THEN <<cur>> \o Split(Tail(s), <<>>)
  ELSE Split(Tail(s), Append(cur, Head(s)))

RECURSIVE TrimStart(_)
TrimStart(s) ==
  IF s # <<>> /\ Head(s) = Blank THEN TrimStart(Tail(s)) ELSE s

RECURSIVE TrimEnd(_)
TrimEnd(s) ==
  IF s # <<>> /\ s[Len(s)] = Blank THEN TrimEnd(SubSeq(s, 1, Len(s) - 1)) ELSE s

\* String.prototype.trim()
Trim(s) == TrimEnd(TrimStart(s))

\* the JavaScript string a lexeme sequence spells
RECURSIVE Chars(_)
Chars(s) == IF s = <<>> THEN "" ELSE Head(s) \o Chars(Tail(s))

----------------------------------------------------------------------------
(* The enablement gate: configureAllTools up to its first registrar call    *)

Range(s) == { s[i] : i \in DOMAIN s }

\* plausible slip: a token that names no category is matched by prefix, so
\* the empty token matches every tool name
ResolveToken_PrefixMatch(map, raw) ==
  LET name == Chars(Trim(raw))
  IN IF name \in DOMAIN map THEN ObjectValues(map[name])
     ELSE IF name = "" THEN UNION { ObjectValues(map[c]) : c \in DOMAIN map }
     ELSE {name}

\* plausible slip: the category lookup is dropped, every token is a literal
ResolveToken_LiteralOnly(map, raw) == { Chars(Trim(raw)) }

\* plausible slip: the token is looked up untrimmed on its right side
ResolveToken_TrimStartOnly(map, raw) ==
  LET name == Chars(TrimStart(raw))
  IN IF name \in DOMAIN map THEN ObjectValues(map[name]) ELSE {name}

\* the callback of .map(): a token resolves to its category's tool names,
\* or to itself
ResolveToken(map, raw) ==
  LET name == Chars(Trim(raw))
  IN IF name \in DOMAIN map THEN ObjectValues(map[name]) ELSE {name}

\* split(",").map(...).flatMap(...), as the set of names it lists
ResolveOverride(map, e) ==
  LET pieces == Split(e, <<>>)
  IN UNION { ResolveToken(map, pieces[i]) : i \in DOMAIN pieces }

\* every tool name of every category of the map
AllCategoryTools(map) == UNION { ObjectValues(map[c]) : c \in DOMAIN map }

\* plausible slip: the defaults are used only when no override is given
AllowListDisabledTools_OverrideReplacesDefaults(e) ==
  AllCategoryTools(TOOLS_CATEGORY_MAP)
    \ (IF e = <<>> THEN Range(DEFAULT_ENABLED_TOOLS)
       ELSE ResolveOverride(TOOLS_CATEGORY_MAP, e))

\* allow-list variant: everything off, then defaults and override deleted
AllowListDisabledTools(e) ==
  AllCategoryTools(TOOLS_CATEGORY_MAP)
    \ (Range(DEFAULT_ENABLED_TOOLS) \cup ResolveOverride(TOOLS_CATEGORY_MAP, e))

\* deny-list variant: the override's names, nothing else
DenyListDisabledTools(e) == ResolveOverride(TOOLS_CATEGORY_MAP_DenyList, e)

----------------------------------------------------------------------------
(* Family registrars: the names each configure function passes to          *)
(* server.tool, given the disabled set it receives                          *)

configureRepoTools(disabled) == { t \in ObjectValues(REPO_TOOLS) : t \notin disabled }

configureSearchTools(disabled) == { t \in ObjectValues(SEARCH_TOOLS) : t \notin disabled }

configureCoreTools(disabled) == { t \in ObjectValues(CORE_TOOLS) : t \notin disabled }

configureWorkTools(disabled) == { t \in ObjectValues(WORK_TOOLS) : t \notin disabled }

configureBuildTools(disabled) == { t \in ObjectValues(BUILD_TOOLS) : t \notin disabled }

configureWorkItemTools(disabled) == { t \in ObjectValues(WORKITEM_TOOLS) : t \notin disabled }

configureReleaseTools(disabled) == { t \in ObjectValues(RELEASE_TOOLS) : t \notin disabled }

configureWikiTools(disabled) == { t \in ObjectValues(WIKI_TOOLS) : t \notin disabled }

configureTestPlanTools(disabled) == { t \in ObjectValues(Test_Plan_Tools) : t \notin disabled }

\* the deny-list variant calls the core and search registrars without a set
NoDisabledSet == {}

\* plausible slip: the search registrar is called without the set
PassedTo_SearchUngated(v, family, disabled) ==
  IF family = "search" \/ (v = "deny" /\ family = "core") THEN NoDisabledSet ELSE disabled

\* the set configureAllTools hands to a family's registrar
PassedTo(v, family, disabled) ==
  IF v = "deny" /\ family \in {"core", "search"} THEN NoDisabledSet ELSE disabled

\* the order of the registrar calls in configureAllTools
Families == << "core", "work", "build", "repo", "workitem", "release", "wiki", "testplan", "search" >>

AfterFamily(f) ==
  CASE f = "core" -> "work" [] f = "work" -> "build" [] f = "build" -> "repo"
    [] f = "repo" -> "workitem" [] f = "workitem" -> "release" [] f = "release" -> "wiki"
    [] f = "wiki" -> "testplan" [] f = "testplan" -> "search" [] f = "search" -> "done"

\* the disabled set of the build v for the override string e
DisabledToolsOf(v, e) ==
  IF v = "allow" THEN AllowListDisabledTools(e) ELSE DenyListDisabledTools(e)

\* the names one family's registrar registers
ConfigureFamily(family, disabled) ==
  CASE family = "core" -> configureCoreTools(disabled)
    [] family = "work" -> configureWorkTools(disabled)
    [] family = "build" -> configureBuildTools(disabled)
    [] family = "repo" -> configureRepoTools(disabled)
    [] family = "workitem" -> configureWorkItemTools(disabled)
    [] family = "release" -> configureReleaseTools(disabled)
    [] family = "wiki" -> configureWikiTools(disabled)
    [] family = "testplan" -> configureTestPlanTools(disabled)
    [] family = "search" -> configureSearchTools(disabled)

\* every name configureAllTools registers, for the build v and override e
RegisteredBy(v, e) ==
  UNION { ConfigureFamily(Families[i], PassedTo(v, Families[i], DisabledToolsOf(v, e)))
          : i \in DOMAIN Families }

----------------------------------------------------------------------------
(* JavaScript values *)

Undefined == [kind |-> "undefined"]
Str(s) == [kind |-> "string", str |-> s]
Num(n) == [kind |-> "number", n |-> n]
Arr(items) == [kind |-> "array", items |-> items]

Obj(of) == [kind |-> "object", of |-> of]

\* JSON.stringify: undefined stays undefined, anything else becomes a string
JSONstringify(v) == IF v = Undefined THEN Undefined ELSE [kind |-> "string", json |-> v]

\* x || fallback, for x a string or undefined
OrElse(x, fallback) == IF x = Undefined \/ x = Str("") THEN Str(fallback) ELSE x

\* String(x) as a template literal renders a string or undefined
Render(x) == IF x = Undefined THEN "undefined" ELSE x.str

\* Array.prototype.slice(start, end) with its relative-index rules
JsSlice(s, start, end) ==
  LET len == Len(s)
      k == IF start < 0 THEN (IF len + start > 0 THEN len + start ELSE 0)
           ELSE (IF start < len THEN start ELSE len)
      final == IF end < 0 THEN (IF len + end > 0 THEN len + end ELSE 0)
               ELSE (IF end < len THEN end ELSE len)
  IN SubSeq(s, k + 1, final)

\* the names the model's repositories carry, in collation order
NameRank(str) ==
  CASE str = "" -> 0 [] str = "alpha" -> 1 [] str = "beta" -> 2
    [] str = "feature/x" -> 3 [] str = "main" -> 4 [] str = "v1" -> 5

\* String.prototype.localeCompare on those names
LocaleCompare(x, y) ==
  IF NameRank(x) < NameRank(y) THEN -1 ELSE IF NameRank(x) > NameRank(y) THEN 1 ELSE 0

\* plausible slip: an item without an id is ordered after every other item
Compare_MissingIdLast(by, a, b) ==
  IF by = "id"
  THEN (IF a.id = Undefined THEN 1000 ELSE a.id.n) - (IF b.id = Undefined THEN 1000 ELSE b.id.n)
  ELSE IF by = "branch" THEN LocaleCompare(b, a)
  ELSE IF a.name = Undefined THEN 0
       ELSE LocaleCompare(a.name.str, IF b.name = Undefined THEN "" ELSE b.name.str)

\* the comparators handed to Array.prototype.sort
\*   "id":   (a, b) => (a.id ?? 0) - (b.id ?? 0)
\*   "name": (a, b) => a.name?.localeCompare(b.name ?? "") ?? 0
\*   "branch": (a, b) => b.localeCompare(a)
Compare(by, a, b) ==
  IF by = "id"
  THEN (IF a.id = Undefined THEN 0 ELSE a.id.n) - (IF b.id = Undefined THEN 0 ELSE b.id.n)
  ELSE IF by = "branch" THEN LocaleCompare(b, a)
  ELSE IF a.name = Undefined THEN 0
       ELSE LocaleCompare(a.name.str, IF b.name = Undefined THEN "" ELSE b.name.str)

Reverse(s) == [i \in 1..Len(s) |-> s[Len(s) + 1 - i]]

\* the length of the run the sort finds at the front of the array
RECURSIVE RunLength(_, _, _, _)
RunLength(by, s, descending, idx) ==
  IF idx > Len(s) THEN idx - 1
  ELSE LET order == Compare(by, s[idx], s[idx - 1])
       IN IF (descending /\ order >= 0) \/ (~descending /\ order < 0) THEN idx - 1
          ELSE RunLength(by, s, descending, idx + 1)

\* the place binary insertion finds for pivot in s[left+1 .. right]
RECURSIVE InsertionPoint(_, _, _, _, _)
InsertionPoint(by, s, pivot, left, right) ==
  IF left >= right THEN left
  ELSE LET mid == left + ((right - left) \div 2)
       IN IF Compare(by, pivot, s[mid + 1]) < 0
          THEN InsertionPoint(by, s, pivot, left, mid)
          ELSE InsertionPoint(by, s, pivot, mid + 1, right)

RECURSIVE BinaryInsertionSort(_, _, _)
BinaryInsertionSort(by, s, start) ==
  IF start >= Len(s) THEN s
  ELSE LET pivot == s[start + 1]
           at == InsertionPoint(by, s, pivot, 0, start)
           moved == SubSeq(s, 1, at) \o << pivot >> \o SubSeq(s, at + 1, start)
                      \o SubSeq(s, start + 2, Len(s))
       IN BinaryInsertionSort(by, moved, start + 1)

\* Array.prototype.sort(comparator) for arrays shorter than one merge run:
\* the leading run is found (and reversed when descending), the rest is
\* placed by binary insertion
ArraySort(by, s) ==
  IF Len(s) < 2 THEN s
  ELSE LET descending == Compare(by, s[2], s[1]) < 0
           run == RunLength(by, s, descending, 3)
           front == IF descending THEN Reverse(SubSeq(s, 1, run)) \o SubSeq(s, run + 1, Len(s))
                    ELSE s
       IN BinaryInsertionSort(by, front, run)

Bool(b) == [kind |-> "boolean", b |-> b]

----------------------------------------------------------------------------
(* DTO projections of repos.ts *)

toIdentityResult(identityRef) ==
  [ id |-> identityRef.id,
    displayName |-> identityRef.displayName,
    uniqueName |-> identityRef.uniqueName ]

toIdentityWithVoteResult(identityRef) ==
  [ id |-> identityRef.id,
    displayName |-> identityRef.displayName,
    uniqueName |-> identityRef.uniqueName,
    vote |-> identityRef.vote,
    hasDeclined |-> identityRef.hasDeclined,
    isRequired |-> identityRef.isRequired ]

toProjectResult(projectRef) ==
  [ id |-> projectRef.id,
    description |-> projectRef.description,
    name |-> projectRef.name ]

toRepositoryResult(repo) ==
  [ id |-> repo.id,
    defaultBranch |-> repo.defaultBranch,
    name |-> repo.name,
    isFork |-> repo.isFork,
    project |-> IF repo.project = Undefined THEN Undefined ELSE toProjectResult(repo.project) ]

toGitUserDateResult(user) ==
  [ email |-> user.email,
    date |-> user.date ]

toGitCommitResult(commit) ==
  [ commitId |-> commit.commitId,
    comment |-> commit.comment,
    commentTruncated |-> commit.commentTruncated,
    author |-> IF commit.author = Undefined THEN Undefined ELSE toGitUserDateResult(commit.author),
    committer |-> IF commit.committer = Undefined THEN Undefined
                  ELSE toGitUserDateResult(commit.committer) ]

\* arr.map(f), for the projections applied to arrays
MapArr(arr, F(_)) == Arr([i \in 1..Len(arr.items) |-> F(arr.items[i])])

toPullRequestResult(pr) ==
  [ creationDate |-> pr.creationDate,
    closedDate |-> pr.closedDate,
    description |-> pr.description,
    pullRequestId |-> pr.pullRequestId,
    sourceRefName |-> pr.sourceRefName,
    targetRefName |-> pr.targetRefName,
    status |-> pr.status,
    title |-> pr.title,
    workItemRefs |-> pr.workItemRefs,
    closedBy |-> IF pr.closedBy = Undefined THEN Undefined ELSE toIdentityResult(pr.closedBy),
    createdBy |-> IF pr.createdBy = Undefined THEN Undefined ELSE toIdentityResult(pr.createdBy),
    reviewers |-> IF pr.reviewers = Undefined THEN Undefined
                  ELSE MapArr(pr.reviewers, toIdentityWithVoteResult),
    commits |-> IF pr.commits = Undefined THEN Undefined ELSE MapArr(pr.commits, toGitCommitResult) ]

toGitItemResult(item) ==
  [ gitObjectType |-> item.gitObjectType,
    objectId |-> item.objectId,
    originalObjectId |-> item.originalObjectId,
    isFolder |-> item.isFolder,
    isSymLink |-> item.isSymLink,
    path |-> item.path ]

\* VersionControlChangeType[n]: the member name of the numeric value n, or
\* undefined when no member has that value
VersionControlChangeType(n) ==
  CASE n = 0 -> Str("None") [] n = 1 -> Str("Add") [] n = 2 -> Str("Edit")
    [] n = 4 -> Str("Encoding") [] n = 8 -> Str("Rename") [] n = 16 -> Str("Delete")
    [] n = 32 -> Str("Undelete") [] n = 64 -> Str("Branch") [] n = 128 -> Str("Merge")
    [] n = 256 -> Str("Lock") [] n = 512 -> Str("Rollback") [] n = 1024 -> Str("SourceRename")
    [] n = 2048 -> Str("TargetRename") [] n = 4096 -> Str("Property") [] n = 8191 -> Str("All")
    [] OTHER -> Undefined

\* a number or undefined used as a condition
Truthy(x) == x # Undefined /\ (x.kind = "number" => x.n # 0)

toGitChangeResult(change) ==
  [ changeId |-> change.changeId,
    originalPath |-> change.originalPath,
    changeType |-> IF Truthy(change.changeType) THEN VersionControlChangeType(change.changeType.n)
                   ELSE Undefined,
    item |-> IF change.item = Undefined THEN Undefined ELSE toGitItemResult(change.item) ]

toGitCommitChangesResult(changes) ==
  [ changes |-> IF changes.changes = Undefined THEN Undefined
                ELSE MapArr(changes.changes, toGitChangeResult) ]

toGitCommitDiffsResult(commitDiffs) ==
  [ changes |-> IF commitDiffs.changes = Undefined THEN Undefined
                ELSE MapArr(commitDiffs.changes, toGitChangeResult),
    baseCommit |-> commitDiffs.baseCommit,
    commonCommit |-> commitDiffs.commonCommit,
    targetCommit |-> commitDiffs.targetCommit,
    allChangesIncluded |-> commitDiffs.allChangesIncluded ]

----------------------------------------------------------------------------
(* What upstream may answer *)

SampleIdentity ==
  [ id |-> Str("u1"), displayName |-> Str("Ada"), uniqueName |-> Str("ada@example.org"),
    url |-> Str("https://vssps/u1") ]

SampleReviewer ==
  [ id |-> Str("u2"), displayName |-> Str("Bob"), uniqueName |-> Str("bob@example.org"),
    vote |-> Num(10), hasDeclined |-> Bool(FALSE), isRequired |-> Undefined,
    url |-> Str("https://vssps/u2") ]

SampleProject ==
  [ id |-> Str("p1"), description |-> Undefined, name |-> Str("proj"), state |-> Str("wellFormed") ]

Repository(id, name, project) ==
  [ id |-> Str(id), name |-> name, defaultBranch |-> Str("refs/heads/main"),
    isFork |-> Undefined, project |-> project, url |-> Str("https://repo") ]

Repositories ==
  { Repository("r1", Str("alpha"), SampleProject),
    Repository("r2", Str("beta"), Undefined),
    Repository("r3", Undefined, Undefined) }

SampleCommit ==
  [ commitId |-> Str("c1"), comment |-> Str("fix"), commentTruncated |-> Undefined,
    author |-> [ name |-> Str("Ada"), email |-> Str("ada@example.org"), date |-> Str("2025-01-01") ],
    committer |-> Undefined, url |-> Str("https://commit") ]

SamplePullRequest ==
    [ creationDate |-> Str("2025-01-01"), closedDate |-> Undefined, description |-> Str("d"),
      pullRequestId |-> Num(7), sourceRefName |-> Str("refs/heads/feature/x"),
      targetRefName |-> Str("refs/heads/main"), status |-> Num(1), title |-> Str("t"),
      workItemRefs |-> Arr(<< [ id |-> Str("42"), url |-> Str("https://wi") ] >>),
      isDraft |-> Bool(TRUE), closedBy |-> Undefined, createdBy |-> SampleIdentity,
      reviewers |-> Arr(<< SampleReviewer >>), commits |-> Undefined,
      url |-> Str("https://pr") ]

SparsePullRequest ==
    [ creationDate |-> Undefined, closedDate |-> Undefined, description |-> Undefined,
      pullRequestId |-> Num(7), sourceRefName |-> Undefined,
      targetRefName |-> Undefined, status |-> Undefined, title |-> Undefined,
      workItemRefs |-> Undefined,
      isDraft |-> Undefined, closedBy |-> SampleIdentity, createdBy |-> Undefined,
      reviewers |-> Undefined, commits |-> Arr(<< SampleCommit >>),
      url |-> Undefined ]

PullRequests == { SamplePullRequest, SparsePullRequest }

SampleItem ==
  [ gitObjectType |-> Num(3), objectId |-> Str("abc"), originalObjectId |-> Undefined,
    isFolder |-> Undefined, isSymLink |-> Undefined, path |-> Str("/a.ts"),
    url |-> Str("https://item") ]

ChangeTypes == { Undefined, Num(0), Num(1), Num(2), Num(3), Num(16) }

Change(changeType) ==
  [ changeId |-> Num(1), originalPath |-> Undefined, changeType |-> changeType,
    item |-> SampleItem, url |-> Str("https://change") ]

CommitChanges ==
  { [ changeCounts |-> Undefined, changes |-> Undefined ] }
    \cup { [ changeCounts |-> Undefined, changes |-> Arr(<< Change(ct) >>) ] : ct \in ChangeTypes }

SampleDiffs ==
  [ changes |-> Arr(<< Change(Num(2)) >>), baseCommit |-> Str("b0"), commonCommit |-> Str("b0"),
    targetCommit |-> Str("c1"), allChangesIncluded |-> Bool(TRUE), aheadCount |-> Num(1) ]

\* a comment thread or a comment, with or without an id
Identified(id) == [ kind |-> "object", id |-> id ]
Identifieds == { Identified(Undefined), Identified(Num(0)), Identified(Num(1)), Identified(Num(2)) }

\* a ref name is a namespace followed by the rest of the name
StrLex(lex) == [ kind |-> "string", lex |-> lex ]
HeadsPrefix == "refs/heads/"
GitRefs ==
  { [ name |-> Undefined, objectId |-> Str("0") ],
    [ name |-> StrLex(<< HeadsPrefix, "main" >>), objectId |-> Str("1") ],
    [ name |-> StrLex(<< HeadsPrefix, "feature/x" >>), objectId |-> Str("2") ],
    [ name |-> StrLex(<< "refs/tags/", "v1" >>), objectId |-> Str("3") ] }

\* a repository with two branches and a tag
ExampleRefs ==
  Arr(<< [ name |-> StrLex(<< HeadsPrefix, "main" >>), objectId |-> Str("1") ],
         [ name |-> StrLex(<< HeadsPrefix, "feature/x" >>), objectId |-> Str("2") ],
         [ name |-> StrLex(<< "refs/tags/", "v1" >>), objectId |-> Str("3") ] >>)

\* an absent collection, or an array of at most MaxItems items of S
Collections(S) ==
  { Undefined } \cup { Arr(q) : q \in UNION { [1..n -> S] : n \in 0..MaxItems } }

\* an absent entity, or one of S
Optional(S) == { Undefined } \cup S

\* what a rejected await rejects with: an Error with a message, an Error
\* without one, or a value that is no Error
ErrVals ==
  { [ kind |-> "error", message |-> "upstream failure" ],
    [ kind |-> "error", message |-> "" ],
    [ kind |-> "nonerror", text |-> "denied" ] }

Error(message) == [ kind |-> "error", message |-> message ]

\* (error as Error).message
MessageOf(err) == IF err.kind = "error" THEN Str(err.message) ELSE Undefined

\* error instanceof Error ? error.message : String(error)
ErrText(err) == IF err.kind = "error" THEN err.message ELSE err.text

\* the Response of fetch
Responses ==
  { [ ok |-> TRUE, status |-> "200", statusText |-> "OK" ],
    [ ok |-> FALSE, status |-> "500", statusText |-> "Internal Server Error" ] }

NoArgs == [kind |-> "none"]
NoEnvelope == [kind |-> "none"]
NoError == [kind |-> "none"]
NoVals == << >>

NoRequest == [kind |-> "none"]

\* the envelopes a handler returns
OkEnvelope(text) == [ content |-> << [ type |-> "text", text |-> text ] >> ]
ErrorEnvelope(text) == [ content |-> << [ type |-> "text", text |-> text ] >>, isError |-> TRUE ]

----------------------------------------------------------------------------
(* Helpers of repos.ts *)

\* PullRequestStatus of the upstream client
PullRequestStatus == [ NotSet |-> 0, Active |-> 1, Abandoned |-> 2, Completed |-> 3, All |-> 4 ]

\* plausible slip: an unknown token falls back to the active code
pullRequestStatusStringToInt_DefaultsToActive(status) ==
  CASE status = "abandoned" -> Num(PullRequestStatus.Abandoned)
    [] status = "active" -> Num(PullRequestStatus.Active)
    [] status = "all" -> Num(PullRequestStatus.All)
    [] status = "completed" -> Num(PullRequestStatus.Completed)
    [] status = "notSet" -> Num(PullRequestStatus.NotSet)
    [] OTHER -> Num(PullRequestStatus.Active)

\* returns the numeric code, or the Error it throws
pullRequestStatusStringToInt(status) ==
  CASE status = "abandoned" -> Num(PullRequestStatus.Abandoned)
    [] status = "active" -> Num(PullRequestStatus.Active)
    [] status = "all" -> Num(PullRequestStatus.All)
    [] status = "completed" -> Num(PullRequestStatus.Completed)
    [] status = "notSet" -> Num(PullRequestStatus.NotSet)
    [] OTHER -> Error("Unknown pull request status: " \o status)

\* s.filter(keep), for a sequence
RECURSIVE FilterSeq(_, _)
FilterSeq(s, keep) ==
  IF s = << >> THEN << >>
  ELSE IF Head(s) \in keep THEN << Head(s) >> \o FilterSeq(Tail(s), keep)
  ELSE FilterSeq(Tail(s), keep)

\* plausible slip: the names are sliced in the order upstream returned them
branchesFilterOutIrrelevantProperties_Unsorted(branches, top) ==
  IF branches = Undefined THEN Undefined
  ELSE LET named == FilterSeq(branches.items, { r \in Range(branches.items) : r.name # Undefined })
           names == [ i \in 1..Len(named) |-> named[i].name.lex ]
           heads == FilterSeq(names, { n \in Range(names) : Head(n) = HeadsPrefix })
           short == [ i \in 1..Len(heads) |-> Chars(Tail(heads[i])) ]
       IN Arr([ i \in 1..Len(JsSlice(short, 0, top)) |-> Str(JsSlice(short, 0, top)[i]) ])

\* undefined for an absent array; else the names under refs/heads/, the
\* prefix removed, sorted descending, the first top of them
branchesFilterOutIrrelevantProperties(branches, top) ==
  IF branches = Undefined THEN Undefined
  ELSE LET named == FilterSeq(branches.items, { r \in Range(branches.items) : r.name # Undefined })
           names == [ i \in 1..Len(named) |-> named[i].name.lex ]
           heads == FilterSeq(names, { n \in Range(names) : Head(n) = HeadsPrefix })
           short == [ i \in 1..Len(heads) |-> Chars(Tail(heads[i])) ]
       IN Arr([ i \in 1..Len(JsSlice(ArraySort("branch", short), 0, top)) |->
                  Str(JsSlice(ArraySort("branch", short), 0, top)[i]) ])

\* String.prototype.toLowerCase on the filters the model passes
ToLowerCase(str) == CASE str = "Alp" -> "alp" [] str = "R2" -> "r2" [] OTHER -> str

\* String.prototype.includes on the names and filters the model passes
Includes(hay, needle) == needle = "" \/ hay = needle \/ << hay, needle >> \in { << "alpha", "alp" >> }

\* the repositories getRepositoriesResult keeps: all without a filter, else
\* those whose lower-cased name includes the lower-cased filter or whose id is it
FilteredRepositories(repositories, repositoryNameOrId) ==
  IF repositoryNameOrId = Undefined \/ ToLowerCase(repositoryNameOrId.str) = ""
  THEN repositories
  ELSE IF repositories = Undefined THEN Undefined
  ELSE LET filter == ToLowerCase(repositoryNameOrId.str)
       IN Arr(FilterSeq(repositories.items,
                { r \in Range(repositories.items) :
                    \/ (r.name # Undefined /\ Includes(ToLowerCase(r.name.str), filter))
                    \/ r.id = Str(filter) }))

----------------------------------------------------------------------------
(* The tool handlers: for each tool, the awaits it makes in order, what it  *)
(* throws between them, and the envelope it returns                          *)

Skips == { -1, 0, 1, 2 }
Tops == { 0, 1, 2 }
StatusTokens == { "abandoned", "active", "all", "completed", "notSet" }

\* the two search tools whose handlers post the request as they get it
SearchHandlers == { SEARCH_TOOLS.search_azure_devops_wiki, SEARCH_TOOLS.search_azure_devops_workitem }

\* the tools with a handler in the model
HandlerTools == ObjectValues(REPO_TOOLS) \cup ObjectValues(SEARCH_TOOLS)

----------------------------------------------------------------------------
(* performCodeSearch and fetchCombinedResults of search.ts *)

ProjectGuid == "6ce954b1-ce1f-45d1-b94d-e6bf2464ba2c"
RepoGuid == "5c1a1e7f-3b2c-4b0e-9f43-0d8f1f6f2a77"

\* validate of the uuid package, on the filters the model passes
validate(str) == str \in { ProjectGuid, RepoGuid }

\* a string or undefined used as a condition
TruthyStr(x) == x # Undefined /\ x.str # ""

\* a string obtained by serialising v
JsonText(v) == [ kind |-> "string", json |-> v ]

CompleteSearchResult ==
  [ project |-> [ id |-> Str("p1") ], repository |-> [ id |-> Str("r1") ], path |-> Str("/a.ts"),
    versions |-> Arr(<< [ changeId |-> Str("c1") ] >>) ]

IncompleteSearchResult ==
  [ project |-> Undefined, repository |-> [ id |-> Str("r1") ], path |-> Str("/b.ts"),
    versions |-> Arr(<< >>) ]

SearchResults == { CompleteSearchResult, IncompleteSearchResult }

\* the bodies the code search endpoint may answer with: no JSON, JSON without
\* results, JSON with at most MaxItems results
CodeResponseTexts ==
  { Str("<html>"), JsonText([ count |-> Num(0), results |-> Undefined ]) }
    \cup { JsonText([ count |-> Num(Len(q)), results |-> Arr(q) ])
            : q \in UNION { [1..n -> SearchResults] : n \in 0..MaxItems } }

\* projectFilter when the request is built
ProjectFilter(a, v) ==
  IF "getRepository" \in DOMAIN v /\ v["getRepository"].project # Undefined
  THEN v["getRepository"].project.name
  ELSE IF "getProject" \in DOMAIN v THEN v["getProject"].name ELSE a.projectName

\* repoFilter when the request is built
RepoFilter(a, v) ==
  IF "getRepository" \in DOMAIN v THEN v["getRepository"].name ELSE a.repositoryName

\* plausible slip: the path check is dropped, a path filter alone goes through
FilterCheck_PathUnchecked(a, v) ==
  IF TruthyStr(RepoFilter(a, v)) /\ ~TruthyStr(ProjectFilter(a, v))
  THEN Error("project filter is reuiqred when repository filter is used.")
  ELSE NoError

\* the Error the filter checks throw, NoError when they pass
FilterCheck(a, v) ==
  IF TruthyStr(RepoFilter(a, v)) /\ ~TruthyStr(ProjectFilter(a, v))
  THEN Error("project filter is reuiqred when repository filter is used.")
  ELSE IF TruthyStr(a.path) /\ (~TruthyStr(RepoFilter(a, v)) \/ ~TruthyStr(ProjectFilter(a, v)))
  THEN Error("Both project and repository filter are reuiqred when path filter is used.")
  ELSE NoError

\* searchRequest as posted: the filters are set when one of them is given
SearchRequestBody(a, v) ==
  [ searchText |-> a.searchText, skip |-> a.skip, top |-> a.top,
    filters |-> IF TruthyStr(RepoFilter(a, v)) \/ TruthyStr(ProjectFilter(a, v)) \/ TruthyStr(a.path)
                THEN [ Project |-> IF TruthyStr(ProjectFilter(a, v)) THEN Arr(<< ProjectFilter(a, v) >>) ELSE Undefined,
                       Repository |-> IF TruthyStr(RepoFilter(a, v)) THEN Arr(<< RepoFilter(a, v) >>) ELSE Undefined,
                       Path |-> IF TruthyStr(a.path) THEN Arr(<< a.path >>) ELSE Undefined ]
                ELSE Undefined ]

\* topResults: the first min($top, length) results, none when results is no array
TopResults(a, v) ==
  LET results == v["responseText"].json.results
  IN IF results = Undefined THEN << >>
     ELSE JsSlice(results.items, 0, IF a.top < Len(results.items) THEN a.top ELSE Len(results.items))

\* a result fetchCombinedResults can fetch the item of
HasIds(r) ==
  /\ r.project # Undefined /\ TruthyStr(r.project.id)
  /\ r.repository # Undefined /\ TruthyStr(r.repository.id)
  /\ TruthyStr(r.path)
  /\ Len(r.versions.items) > 0 /\ TruthyStr(r.versions.items[1].changeId)

MissingIds(r) ==
  [ error |-> [ kind |-> "string",
                prefix |-> "Missing projectId, repositoryId, filePath, or changeId in the result: ",
                json |-> r ] ]

\* the loop of fetchCombinedResults up to its next await: an error entry is
\* pushed for every result that misses an id
RECURSIVE PushMissing(_, _)
PushMissing(results, combined) ==
  IF Len(combined) < Len(results) /\ ~HasIds(results[Len(combined) + 1])
  THEN PushMissing(results, Append(combined, MissingIds(results[Len(combined) + 1])))
  ELSE combined

\* combinedResults when the loop is suspended at, or has left, its await
CombinedResults(a, v) ==
  IF "getItem" \in DOMAIN v THEN v["getItem"].items ELSE PushMissing(TopResults(a, v), << >>)

\* combinedResults after the entry for the awaited item is pushed
PushEntry(a, v, entry) ==
  Arr(PushMissing(TopResults(a, v), Append(CombinedResults(a, v), entry)))

\* the await of performCodeSearch that follows site s
CodeSearchNext(s, a, v) ==
  LET afterProject ==
        IF TruthyStr(a.repositoryName) /\ validate(a.repositoryName.str) THEN "getRepository"
        ELSE "fetch"
  IN CASE s = "entry" -> "getToken"
       [] s = "getToken" -> "getClient"
       [] s = "getClient" -> "getOrgName"
       [] s = "getOrgName" -> "getGitApi"
       [] s = "getGitApi" ->
            IF TruthyStr(a.projectName) /\ validate(a.projectName.str) THEN "getCoreApi"
            ELSE afterProject
       [] s = "getCoreApi" -> "getProject"
       [] s = "getProject" -> afterProject
       [] s = "getRepository" -> "fetch"
       [] s = "fetch" -> "responseText"
       [] s \in { "responseText", "getItem" } ->
            IF Len(CombinedResults(a, v)) < Len(TopResults(a, v)) THEN "getItem" ELSE "return"

\* the Error performCodeSearch throws once site s has returned
CodeSearchThrow(s, a, v) ==
  IF s \in { "getProject", "getRepository" } /\ v[s] = Undefined
  THEN Error("Cannot read properties of undefined (reading 'name')")
  ELSE IF s = "fetch" /\ ~v[s].ok
  THEN Error("Azure DevOps Code Search API error: " \o v[s].status \o " " \o v[s].statusText)
  ELSE IF s = "responseText" /\ "json" \notin DOMAIN v[s]
  THEN Error("Unexpected token '<' is not valid JSON")
  ELSE IF s \in { "getGitApi", "getProject", "getRepository" } /\ CodeSearchNext(s, a, v) = "fetch"
  THEN FilterCheck(a, v)
  ELSE NoError

\* the inputs the schema of a tool lets through
ArgsOf(t) ==
  CASE t = REPO_TOOLS.get_azure_devops_repositories ->
         [ project : {"proj"}, top : Tops, skip : Skips,
           repositoryNameOrId : { Undefined, Str("Alp"), Str("R2"), Str("beta") } ]
    [] t \in { REPO_TOOLS.list_azure_devops_pull_request_threads,
               REPO_TOOLS.list_azure_devops_pull_request_comments_by_thread } ->
         [ repositoryId : {"r1"}, pullRequestId : {7}, top : Tops, skip : Skips ]
    [] t = REPO_TOOLS.get_azure_devops_item_content_by_commit ->
         [ repositoryId : {"r1"}, commitId : {"c1"}, itemPath : {"/a.ts"} ]
    [] t = REPO_TOOLS.get_azure_devops_content_by_objectid ->
         [ repositoryId : {"r1"}, objectId : {"abc"} ]
    [] t = REPO_TOOLS.update_pull_request_status ->
         [ repositoryId : {"r1"}, pullRequestId : {7}, status : {"active", "abandoned"} ]
    [] t = REPO_TOOLS.update_pull_request_reviewers ->
         [ repositoryId : {"r1"}, pullRequestId : {7},
           reviewerIds : { << >>, << "u1" >>, << "u1", "u2" >> }, action : {"add", "remove"} ]
    [] t \in { REPO_TOOLS.list_pull_requests_by_repo, REPO_TOOLS.list_pull_requests_by_project } ->
         [ repositoryId : {"r1"}, project : {"proj"}, top : {2}, skip : {0},
           created_by_me : BOOLEAN, i_am_reviewer : BOOLEAN, status : StatusTokens ]
    [] t \in { REPO_TOOLS.list_branches_by_repo, REPO_TOOLS.list_my_branches_by_repo } ->
         [ repositoryId : {"r1"}, top : Tops \cup { 10 } ]
    [] t = REPO_TOOLS.get_branch_by_name ->
         [ repositoryId : {"r1"}, branchName : {"main", "gone"} ]
    [] t = SEARCH_TOOLS.search_azure_devops_code ->
         [ searchText : {"needle"}, skip : {0}, top : Tops \cup { -1 },
           projectName : { Undefined, Str("proj"), Str(ProjectGuid) },
           repositoryName : { Undefined, Str("alpha"), Str(RepoGuid) },
           path : { Undefined, Str("/src") } ]
    [] OTHER -> [ repositoryId : {"r1"}, pullRequestId : {7} ]

\* handlers whose body is inside try { } catch
Catches(t) ==
  t \in { REPO_TOOLS.get_azure_devops_repositories,
          REPO_TOOLS.get_azure_devops_pull_request_by_id,
          REPO_TOOLS.get_azure_devops_item_content_by_commit,
          REPO_TOOLS.get_azure_devops_content_by_objectid,
          REPO_TOOLS.search_commits,
          REPO_TOOLS.list_pull_requests_by_commits,
          SEARCH_TOOLS.search_azure_devops_code }

\* the first upstream call of a repo handler once it holds the git client
FirstCall(t, a) ==
  CASE t = REPO_TOOLS.get_azure_devops_repositories -> "getRepositories"
    [] t = REPO_TOOLS.get_azure_devops_pull_request_by_id -> "getPullRequest"
    [] t = REPO_TOOLS.get_azure_devops_changes_by_commit -> "getChanges"
    [] t = REPO_TOOLS.get_azure_devops_item_content_by_commit -> "getItemContent"
    [] t = REPO_TOOLS.get_azure_devops_content_by_objectid -> "getBlobContent"
    [] t = REPO_TOOLS.list_azure_devops_pull_request_threads -> "getThreads"
    [] t = REPO_TOOLS.list_azure_devops_pull_request_comments_by_thread -> "getComments"
    [] t = REPO_TOOLS.create_pull_request -> "createPullRequest"
    [] t = REPO_TOOLS.update_pull_request_status -> "updatePullRequest"
    [] t = REPO_TOOLS.update_pull_request_reviewers ->
         IF a.action = "add" THEN "createPullRequestReviewers"
         ELSE IF a.reviewerIds = << >> THEN "return" ELSE "deletePullRequestReviewer"
    [] t = REPO_TOOLS.list_pull_requests_by_repo ->
         IF a.created_by_me \/ a.i_am_reviewer THEN "getCurrentUserDetails" ELSE "getPullRequests"
    [] t = REPO_TOOLS.list_pull_requests_by_project ->
         IF a.created_by_me \/ a.i_am_reviewer THEN "getCurrentUserDetails"
         ELSE "getPullRequestsByProject"
    [] t \in { REPO_TOOLS.list_branches_by_repo, REPO_TOOLS.list_my_branches_by_repo,
               REPO_TOOLS.get_branch_by_name } -> "getRefs"
    [] t = REPO_TOOLS.reply_to_comment -> "createComment"
    [] t = REPO_TOOLS.resolve_comment -> "updateThread"
    [] t = REPO_TOOLS.search_commits -> "getCommits"
    [] t = REPO_TOOLS.list_pull_requests_by_commits -> "getPullRequestQuery"

\* the await that follows site s once it has returned (v holds its value),
\* "return" when the handler reaches its return statement
NextSite(t, s, a, v) ==
  IF t = SEARCH_TOOLS.search_azure_devops_code THEN CodeSearchNext(s, a, v)
  ELSE IF t \in SearchHandlers
  THEN CASE s = "entry" -> "getToken"
         [] s = "getToken" -> "getClient"
         [] s = "getClient" -> "getOrgName"
         [] s = "getOrgName" -> "fetch"
         [] s = "fetch" -> "responseText"
         [] s = "responseText" -> "return"
  ELSE CASE s = "entry" -> "connectionProvider"
         [] s = "connectionProvider" -> "getGitApi"
         [] s = "getGitApi" -> FirstCall(t, a)
         [] s = "getPullRequest" -> "getPullRequestCommits"
         [] s = "getPullRequestCommits" ->
              IF v[s] # Undefined /\ Len(v[s].items) > 0 THEN "getCommitDiffs" ELSE "return"
         [] s \in { "getItemContent", "getBlobContent" } -> "streamToString"
         [] s = "getCurrentUserDetails" ->
              IF t = REPO_TOOLS.list_pull_requests_by_repo THEN "getPullRequests"
              ELSE "getPullRequestsByProject"
         [] s = "deletePullRequestReviewer" ->
              IF v[s].n < Len(a.reviewerIds) THEN "deletePullRequestReviewer" ELSE "return"
         [] OTHER -> "return"

\* awaits that cannot reject: getOrgName only returns a field
CanFail(s) == s # "getOrgName"

\* the connection getClient builds for the organization org
WebApi(org) == [ kind |-> "object", of |-> "WebApi", org |-> org ]

\* the values an await may resolve to; getClient and getOrgName read the
\* orgName field when they run
Returns(t, s) ==
  CASE s = "connectionProvider" -> { WebApi(orgName) }
    [] s = "getGitApi" -> { Obj("GitApi") }
    [] s = "getToken" -> { Obj("AccessToken") }
    [] s = "getClient" -> { WebApi(orgName) }
    [] s = "getOrgName" -> { Str(orgName) }
    [] s = "fetch" -> Responses
    [] s = "responseText" ->
         IF t = SEARCH_TOOLS.search_azure_devops_code THEN CodeResponseTexts
         ELSE { Str("{\"count\":0,\"results\":[]}") }
    [] s = "getCoreApi" -> { Obj("CoreApi") }
    [] s = "getProject" -> { Undefined, SampleProject, [ SampleProject EXCEPT !.name = Undefined ] }
    [] s = "getRepository" -> Optional(Repositories)
    [] s = "getItem" -> { SampleItem }
    [] s = "getRepositories" -> Collections(Repositories)
    [] s = "getPullRequest" -> Optional(PullRequests)
    [] s = "getPullRequestCommits" -> { Undefined, Arr(<< >>), Arr(<< SampleCommit >>) }
    [] s = "getCommitDiffs" -> Optional({ SampleDiffs })
    [] s = "getChanges" -> Optional(CommitChanges)
    [] s \in { "getItemContent", "getBlobContent" } -> { Obj("ReadableStream") }
    [] s = "streamToString" -> { Str("file content"), Str("") }
    [] s \in { "getThreads", "getComments" } -> Collections(Identifieds)
    [] s \in { "createPullRequest", "updatePullRequest" } -> Optional({ SamplePullRequest })
    [] s = "createPullRequestReviewers" -> { Undefined, Arr(<< SampleReviewer >>) }
    [] s = "deletePullRequestReviewer" -> { Undefined }
    [] s = "getCurrentUserDetails" -> { [ authenticatedUser |-> [ id |-> Str("u1") ] ] }
    [] s \in { "getPullRequests", "getPullRequestsByProject" } ->
         { Undefined, Arr(<< >>) } \cup { Arr(<< pr >>) : pr \in PullRequests }
    [] s = "getRefs" -> Collections(GitRefs) \cup { ExampleRefs }
    [] s \in { "createComment", "updateThread" } -> Optional({ Identified(Num(1)) })
    [] s = "getCommits" -> { Undefined, Arr(<< SampleCommit >>) }
    [] s = "getPullRequestQuery" -> Optional({ Obj("GitPullRequestQuery") })

\* what the handler keeps of a returned value: the loop over reviewerIds keeps
\* the number of reviewers removed so far
\* the loop of fetchCombinedResults keeps combinedResults
Kept(s, a, v, x) ==
  IF s = "deletePullRequestReviewer"
  THEN Num(IF s \in DOMAIN v THEN v[s].n + 1 ELSE 1)
  ELSE IF s = "getItem" THEN PushEntry(a, v, [ gitItem |-> x ])
  ELSE x

\* what the try/catch around an await keeps when the await rejects
Caught(s, a, v, err) ==
  IF s = "getItem" THEN PushEntry(a, v, [ error |-> Str(ErrText(err)) ])
  ELSE Undefined

\* String.prototype.replace("refs/heads/", "") on the ref names of the model
StripHeads(str) ==
  CASE str = "refs/heads/main" -> "main"
    [] str = "refs/heads/feature/x" -> "feature/x"
    [] OTHER -> str

\* the argument a call site sends upstream, where the handler computes one
Request(t, s, a, v) ==
  CASE s = "updatePullRequest" -> [ status |-> Num(IF a.status = "active" THEN 3 ELSE 2) ]
    [] s \in { "getPullRequests", "getPullRequestsByProject" } ->
         [ status |-> pullRequestStatusStringToInt(a.status),
           creatorId |-> IF a.created_by_me THEN v["getCurrentUserDetails"].authenticatedUser.id
                         ELSE Undefined,
           reviewerId |-> IF a.i_am_reviewer THEN v["getCurrentUserDetails"].authenticatedUser.id
                          ELSE Undefined,
           skip |-> a.skip, top |-> a.top ]
    [] s = "getCommitDiffs" ->
         [ baseVersion |-> OrElse(IF v["getPullRequest"].targetRefName = Undefined THEN Undefined
                                  ELSE Str(StripHeads(v["getPullRequest"].targetRefName.str)), "main"),
           targetVersion |-> v["getPullRequestCommits"].items[1].commitId,
           top |-> Num(100) ]
    [] s = "createPullRequestReviewers" -> [ reviewerIds |-> a.reviewerIds ]
    [] s = "deletePullRequestReviewer" ->
         [ reviewerId |-> a.reviewerIds[IF s \in DOMAIN v THEN v[s].n + 1 ELSE 1] ]
    [] s = "updateThread" -> [ status |-> Num(2) ]
    [] s = "fetch" ->
         [ org |-> v["getOrgName"],
           body |-> IF t = SEARCH_TOOLS.search_azure_devops_code THEN SearchRequestBody(a, v)
                    ELSE Undefined ]
    [] s = "getItem" ->
         LET r == TopResults(a, v)[Len(CombinedResults(a, v)) + 1]
         IN [ repositoryId |-> r.repository.id, path |-> r.path, project |-> r.project.id,
              version |-> r.versions.items[1].changeId ]
    [] OTHER -> NoRequest

\* plausible slip: an absent pull request is not rejected
SyncThrow_AbsentPullRequestPasses(t, s, a, v) ==
  CASE t = SEARCH_TOOLS.search_azure_devops_code -> CodeSearchThrow(s, a, v)
    [] t = REPO_TOOLS.get_azure_devops_repositories /\ s = "getRepositories" ->
         LET repos == FilteredRepositories(v[s], a.repositoryNameOrId)
         IN IF repos = Undefined \/ Len(repos.items) = 0
            THEN Error("Repository " \o Render(a.repositoryNameOrId)
                         \o " not found in project " \o a.project)
            ELSE NoError
    [] t = REPO_TOOLS.get_azure_devops_pull_request_by_id /\ s = "getPullRequest" ->
         NoError
    [] t \in SearchHandlers /\ s = "fetch" ->
         IF v[s].ok THEN NoError
         ELSE Error((IF t = SEARCH_TOOLS.search_azure_devops_wiki
                     THEN "Azure DevOps Wiki Search API error: "
                     ELSE "Azure DevOps Work Item Search API error: ")
                      \o v[s].status \o " " \o v[s].statusText)
    [] OTHER -> NoError

\* the Error a handler throws itself once site s has returned, NoError if none
SyncThrow(t, s, a, v) ==
  CASE t = SEARCH_TOOLS.search_azure_devops_code -> CodeSearchThrow(s, a, v)
    [] t = REPO_TOOLS.get_azure_devops_repositories /\ s = "getRepositories" ->
         LET repos == FilteredRepositories(v[s], a.repositoryNameOrId)
         IN IF repos = Undefined \/ Len(repos.items) = 0
            THEN Error("Repository " \o Render(a.repositoryNameOrId)
                         \o " not found in project " \o a.project)
            ELSE NoError
    [] t = REPO_TOOLS.get_azure_devops_pull_request_by_id /\ s = "getPullRequest" ->
         IF v[s] = Undefined THEN Error("Pull request not found.") ELSE NoError
    [] t \in SearchHandlers /\ s = "fetch" ->
         IF v[s].ok THEN NoError
         ELSE Error((IF t = SEARCH_TOOLS.search_azure_devops_wiki
                     THEN "Azure DevOps Wiki Search API error: "
                     ELSE "Azure DevOps Work Item Search API error: ")
                      \o v[s].status \o " " \o v[s].statusText)
    [] OTHER -> NoError

\* the value getPullRequestResult returns when none of its awaits failed
getPullRequestResult(v) ==
  [ toPullRequestResult(v["getPullRequest"]) EXCEPT
      !.commits = IF v["getPullRequestCommits"] = Undefined THEN Arr(<< >>)
                  ELSE MapArr(v["getPullRequestCommits"], toGitCommitResult) ]
    @@ [ pullRequestChanges |->
           IF "getCommitDiffs" \in DOMAIN v /\ v["getCommitDiffs"] # Undefined
           THEN toGitCommitDiffsResult(v["getCommitDiffs"]) ELSE Undefined ]

\* the value getRepositoriesResult returns when it does not throw
getRepositoriesResult(v, a) ==
  MapArr(FilteredRepositories(v["getRepositories"], a.repositoryNameOrId), toRepositoryResult)

\* plausible slip: the end of the slice is top, not skip + top
Paginated_EndIsTop(collection, a) ==
  IF collection = Undefined THEN Undefined
  ELSE Arr(JsSlice(ArraySort("id", collection.items), a.skip, a.top))

\* collection?.sort(by id).slice(skip, skip + top)
Paginated(collection, a) ==
  IF collection = Undefined THEN Undefined
  ELSE Arr(JsSlice(ArraySort("id", collection.items), a.skip, a.skip + a.top))

\* the first element the predicate of find holds for, undefined if none
RECURSIVE Find(_, _)
Find(s, wanted) ==
  IF s = << >> THEN Undefined
  ELSE IF Head(s) \in wanted THEN Head(s) ELSE Find(Tail(s), wanted)

\* reviewerIds.join(", ")
RECURSIVE Join(_)
Join(ids) ==
  IF ids = << >> THEN ""
  ELSE IF Len(ids) = 1 THEN ids[1] ELSE ids[1] \o ", " \o Join(Tail(ids))

\* the envelope the handler returns when its last await has returned
Success(t, a, v) ==
  CASE t = REPO_TOOLS.get_azure_devops_repositories ->
         OkEnvelope(JSONstringify(
           Arr(JsSlice(ArraySort("name", getRepositoriesResult(v, a).items), a.skip, a.skip + a.top))))
    [] t = REPO_TOOLS.get_azure_devops_pull_request_by_id ->
         OkEnvelope(JSONstringify(getPullRequestResult(v)))
    [] t = REPO_TOOLS.get_azure_devops_changes_by_commit ->
         OkEnvelope(IF v["getChanges"] # Undefined
                    THEN JSONstringify(toGitCommitChangesResult(v["getChanges"]))
                    ELSE Str("No changes found."))
    [] t = REPO_TOOLS.get_azure_devops_item_content_by_commit ->
         OkEnvelope(JSONstringify(v["streamToString"]))
    [] t = REPO_TOOLS.get_azure_devops_content_by_objectid ->
         OkEnvelope(v["streamToString"])
    [] t = REPO_TOOLS.list_azure_devops_pull_request_threads ->
         OkEnvelope(JSONstringify(Paginated(v["getThreads"], a)))
    [] t = REPO_TOOLS.list_azure_devops_pull_request_comments_by_thread ->
         OkEnvelope(JSONstringify(Paginated(v["getComments"], a)))
    [] t = REPO_TOOLS.create_pull_request ->
         OkEnvelope(JSONstringify(v["createPullRequest"]))
    [] t = REPO_TOOLS.update_pull_request_status ->
         OkEnvelope(JSONstringify(v["updatePullRequest"]))
    [] t = REPO_TOOLS.update_pull_request_reviewers ->
         IF a.action = "add" THEN OkEnvelope(JSONstringify(v["createPullRequestReviewers"]))
         ELSE OkEnvelope(Str("Reviewers with IDs " \o Join(a.reviewerIds)
                               \o " removed from pull request " \o ToString(a.pullRequestId) \o "."))
    [] t = REPO_TOOLS.list_pull_requests_by_repo ->
         OkEnvelope(JSONstringify(IF v["getPullRequests"] = Undefined THEN Arr(<< >>)
                                  ELSE MapArr(v["getPullRequests"], toPullRequestResult)))
    [] t = REPO_TOOLS.list_pull_requests_by_project ->
         OkEnvelope(JSONstringify(IF v["getPullRequestsByProject"] = Undefined THEN Arr(<< >>)
                                  ELSE MapArr(v["getPullRequestsByProject"], toPullRequestResult)))
    [] t \in { REPO_TOOLS.list_branches_by_repo, REPO_TOOLS.list_my_branches_by_repo } ->
         OkEnvelope(JSONstringify(branchesFilterOutIrrelevantProperties(v["getRefs"], a.top)))
    [] t = REPO_TOOLS.get_branch_by_name ->
         LET branches == v["getRefs"]
             branch == IF branches = Undefined THEN Undefined
                       ELSE Find(branches.items,
                                 { r \in Range(branches.items) :
                                     r.name = StrLex(<< HeadsPrefix, a.branchName >>) })
         IN IF branch = Undefined
            THEN OkEnvelope(Str("Branch " \o a.branchName \o " not found in repository "
                                  \o a.repositoryId))
            ELSE OkEnvelope(JSONstringify(branch))
    [] t = REPO_TOOLS.reply_to_comment -> OkEnvelope(JSONstringify(v["createComment"]))
    [] t = REPO_TOOLS.resolve_comment -> OkEnvelope(JSONstringify(v["updateThread"]))
    [] t = REPO_TOOLS.search_commits -> OkEnvelope(JSONstringify(v["getCommits"]))
    [] t = REPO_TOOLS.list_pull_requests_by_commits ->
         OkEnvelope(JSONstringify(v["getPullRequestQuery"]))
    [] t \in SearchHandlers -> OkEnvelope(v["responseText"])
    [] t = SEARCH_TOOLS.search_azure_devops_code ->
         OkEnvelope([ kind |-> "string",
                      concat |-> << v["responseText"], JSONstringify(Arr(CombinedResults(a, v))) >> ])

\* the envelope the catch block of a handler returns for the caught error
CatchEnvelope(t, a, err) ==
  CASE t = REPO_TOOLS.get_azure_devops_repositories ->
         ErrorEnvelope(OrElse(MessageOf(err), "Failed to get repositories."))
    [] t = REPO_TOOLS.get_azure_devops_pull_request_by_id ->
         ErrorEnvelope(OrElse(MessageOf(err), "Failed to get pull request."))
    [] t = REPO_TOOLS.get_azure_devops_item_content_by_commit ->
         ErrorEnvelope(Str("Error getting content for item " \o a.itemPath \o " at commit "
                             \o a.commitId \o ": " \o ErrText(err)))
    [] t = REPO_TOOLS.get_azure_devops_content_by_objectid ->
         ErrorEnvelope(Str("Error getting content for object " \o a.objectId \o ": " \o ErrText(err)))
    [] t = REPO_TOOLS.search_commits ->
         ErrorEnvelope(Str("Error searching commits: " \o ErrText(err)))
    [] t = REPO_TOOLS.list_pull_requests_by_commits ->
         ErrorEnvelope(Str("Error querying pull requests by commits: " \o ErrText(err)))
    [] t = SEARCH_TOOLS.search_azure_devops_code ->
         ErrorEnvelope(OrElse(MessageOf(err), "Code search failed."))

HandlerIdle ==
  /\ tool = "none"
  /\ args = NoArgs
  /\ hpc = "idle"
  /\ site = "none"
  /\ vals = NoVals
  /\ envelope = NoEnvelope
  /\ thrown = NoError
  /\ failedAt = "none"
  /\ calls = << >>

\* the organizations the server is pointed at
OrgNames == { "contoso", "fabrikam" }

\* the manager as index.ts constructs it: the organization of the command
\* line, nothing saved by this process yet
ManagerInit ==
  /\ orgName = "contoso"
  /\ configFile = Undefined

\* no helper function is being applied on its own
FnIdle ==
  /\ fn = "none"
  /\ fnArg = NoArgs
  /\ fnResult = NoEnvelope

----------------------------------------------------------------------------
(* configureAllTools, one step per statement *)

\* new Set<string>(...) and, in the allow-list variant, the forEach(delete)
ComputeDisabledTools ==
  /\ gpc = "start"
  /\ disabledTools' = DisabledToolsOf(variant, env)
  /\ gpc' = "core"
  /\ UNCHANGED <<variant, env, registered>>
  /\ UNCHANGED <<handlerVars, managerVars, fnVars>>

\* plausible slip: a registrar opens the connection while it registers
Configure_EagerConnection(family) ==
  /\ gpc = family
  /\ registered' = registered \cup ConfigureFamily(family, PassedTo(variant, family, disabledTools))
  /\ gpc' = AfterFamily(family)
  /\ calls' = Append(calls, [ site |-> "connectionProvider", request |-> NoRequest ])
  /\ UNCHANGED <<variant, env, disabledTools>>
  /\ UNCHANGED <<tool, args, hpc, site, vals, envelope, thrown, failedAt, managerVars, fnVars>>

\* a family registrar: server.tool for every tool of the family that the set
\* it is passed does not hold
Configure(family) ==
  /\ gpc = family
  /\ registered' = registered \cup ConfigureFamily(family, PassedTo(variant, family, disabledTools))
  /\ gpc' = AfterFamily(family)
  /\ UNCHANGED <<variant, env, disabledTools>>
  /\ UNCHANGED <<handlerVars, managerVars, fnVars>>

ConfigureCore == Configure("core")
ConfigureWork == Configure("work")
ConfigureBuild == Configure("build")
ConfigureRepo == Configure("repo")
ConfigureWorkItem == Configure("workitem")
ConfigureRelease == Configure("release")
ConfigureWiki == Configure("wiki")
ConfigureTestPlan == Configure("testplan")
ConfigureSearch == Configure("search")

\* the process starts with either build and any override string
Init ==
  /\ variant \in {"allow", "deny"}
  /\ env \in EnvStrings
  /\ disabledTools = {}
  /\ registered = {}
  /\ gpc = "start"
  /\ HandlerIdle
  /\ ManagerInit
  /\ FnIdle

Next ==
  \/ ComputeDisabledTools
  \/ ConfigureCore
  \/ ConfigureWork
  \/ ConfigureBuild
  \/ ConfigureRepo
  \/ ConfigureWorkItem
  \/ ConfigureRelease
  \/ ConfigureWiki
  \/ ConfigureTestPlan
  \/ ConfigureSearch

Spec == Init /\ [][Next]_vars

----------------------------------------------------------------------------
(* One tool invocation *)

\* plausible slip: getPullRequestResult wraps the diff fetch in its own
\* try/catch and goes on without the diffs
Propagates_DiffsCaught(t, s) == s \notin { "getItem", "getCommitDiffs" }

\* plausible slip: the loop of fetchCombinedResults awaits outside a try, a
\* failed item fetch leaves the loop
Propagates_ItemFailureAborts(t, s) == TRUE

\* whether a rejection of the await at site s leaves the function that
\* awaits it: only the loop of fetchCombinedResults awaits inside its own try
Propagates(t, s) == s # "getItem"

\* the error err leaves the handler body: the catch block turns it into an
\* envelope, a handler without one rejects
Raise(err) ==
  /\ IF Catches(tool)
     THEN /\ envelope' = CatchEnvelope(tool, args, err)
          /\ hpc' = "returned"
          /\ thrown' = thrown
     ELSE /\ thrown' = err
          /\ hpc' = "thrown"
          /\ envelope' = envelope
  /\ site' = "none"
  /\ calls' = calls

\* the handler goes on after site s, v holding every value returned so far
\* and failed the await that has failed, if one has
Proceed(s, v, failed) ==
  LET err == SyncThrow(tool, s, args, v)
      nxt == NextSite(tool, s, args, v)
  IN /\ vals' = v
     /\ IF err # NoError
        THEN /\ Raise(err)
             /\ failedAt' = s
        ELSE /\ failedAt' = failed
             /\ thrown' = thrown
             /\ IF nxt = "return"
                THEN /\ envelope' = Success(tool, args, v)
                     /\ hpc' = "returned"
                     /\ site' = "none"
                     /\ calls' = calls
                ELSE /\ envelope' = envelope
                     /\ hpc' = hpc
                     /\ site' = nxt
                     /\ calls' = Append(calls, [ site |-> nxt, request |-> Request(tool, nxt, args, v) ])

\* the client invokes a registered tool with an input its schema accepts
Invoke ==
  /\ gpc = "done"
  /\ hpc = "idle"
  /\ \E t \in registered \cap HandlerTools :
       \E a \in ArgsOf(t) :
         LET first == NextSite(t, "entry", a, NoVals)
         IN /\ tool' = t
            /\ args' = a
            /\ hpc' = "running"
            /\ site' = first
            /\ calls' = << [ site |-> first, request |-> Request(t, first, a, NoVals) ] >>
  /\ UNCHANGED <<vals, envelope, thrown, failedAt>>
  /\ UNCHANGED <<gateVars, managerVars, fnVars>>

\* the await the handler is suspended at resolves
UpstreamReturns ==
  /\ hpc = "running"
  /\ \E x \in Returns(tool, site) :
       Proceed(site, (site :> Kept(site, args, vals, x)) @@ vals, failedAt)
  /\ UNCHANGED <<tool, args>>
  /\ UNCHANGED <<gateVars, managerVars, fnVars>>

\* the await the handler is suspended at rejects
UpstreamFails ==
  /\ hpc = "running"
  /\ CanFail(site)
  /\ \E err \in ErrVals :
       IF Propagates(tool, site)
       THEN /\ Raise(err)
            /\ failedAt' = site
            /\ vals' = vals
       ELSE /\ Proceed(site, (site :> Caught(site, args, vals, err)) @@ vals, site)
  /\ UNCHANGED <<tool, args>>
  /\ UNCHANGED <<gateVars, managerVars, fnVars>>

\* setOrgName of the client manager, called by the tool that changes the
\* organization: the field is assigned, then the name is saved to the config
\* file unless there is no file or the write fails
SetOrgName ==
  /\ gpc = "done"
  /\ \E name \in OrgNames :
       /\ orgName' = name
       /\ configFile' \in { Str(name), configFile }
  /\ UNCHANGED <<gateVars, handlerVars, fnVars>>

\* the builds and override strings under which handlers are invoked
HandlerEnvs == { << >>, << "category_repo", Comma, "category_search" >> }

InitHandlers ==
  /\ variant \in {"allow", "deny"}
  /\ env \in HandlerEnvs
  /\ disabledTools = {}
  /\ registered = {}
  /\ gpc = "start"
  /\ HandlerIdle
  /\ ManagerInit
  /\ FnIdle

NextHandlers ==
  \/ Next
  \/ Invoke
  \/ UpstreamReturns
  \/ UpstreamFails

SpecHandlers == InitHandlers /\ [][NextHandlers]_vars

\* an invocation with the organization being changed while it is in flight
NextConcurrent ==
  \/ NextHandlers
  \/ SetOrgName

SpecConcurrent == InitHandlers /\ [][NextConcurrent]_vars

----------------------------------------------------------------------------
(* The helper functions of repos.ts applied on their own *)

\* the strings pullRequestStatusStringToInt is applied to
StatusInputs == StatusTokens \cup { "merged", "Active", "" }

\* the changes toGitChangeResult is applied to
ChangeInputs ==
  { Change(ct) : ct \in ChangeTypes } \cup { [ Change(ct) EXCEPT !.item = Undefined ] : ct \in ChangeTypes }

\* the arguments branchesFilterOutIrrelevantProperties is applied to
BranchInputs ==
  [ branches : Collections(GitRefs) \cup { ExampleRefs }, top : Tops \cup { 10 } ]

FnInputs(f) ==
  CASE f = "pullRequestStatusStringToInt" -> StatusInputs
    [] f = "toGitChangeResult" -> ChangeInputs
    [] f = "branchesFilterOutIrrelevantProperties" -> BranchInputs
    [] f = "toPullRequestResult" -> PullRequests

CallPullRequestStatusStringToInt ==
  /\ fn = "pullRequestStatusStringToInt"
  /\ fnResult = NoEnvelope
  /\ fnResult' = pullRequestStatusStringToInt(fnArg)
  /\ UNCHANGED <<fn, fnArg, gateVars, handlerVars, managerVars>>

CallToGitChangeResult ==
  /\ fn = "toGitChangeResult"
  /\ fnResult = NoEnvelope
  /\ fnResult' = toGitChangeResult(fnArg)
  /\ UNCHANGED <<fn, fnArg, gateVars, handlerVars, managerVars>>

CallBranchesFilter ==
  /\ fn = "branchesFilterOutIrrelevantProperties"
  /\ fnResult = NoEnvelope
  /\ fnResult' = branchesFilterOutIrrelevantProperties(fnArg.branches, fnArg.top)
  /\ UNCHANGED <<fn, fnArg, gateVars, handlerVars, managerVars>>

CallToPullRequestResult ==
  /\ fn = "toPullRequestResult"
  /\ fnResult = NoEnvelope
  /\ fnResult' = toPullRequestResult(fnArg)
  /\ UNCHANGED <<fn, fnArg, gateVars, handlerVars, managerVars>>

InitFunctions ==
  /\ variant = "allow"
  /\ env = << >>
  /\ disabledTools = {}
  /\ registered = {}
  /\ gpc = "start"
  /\ HandlerIdle
  /\ ManagerInit
  /\ fn \in { "pullRequestStatusStringToInt", "toGitChangeResult",
              "branchesFilterOutIrrelevantProperties", "toPullRequestResult" }
  /\ fnArg \in FnInputs(fn)
  /\ fnResult = NoEnvelope

NextFunctions ==
  \/ CallPullRequestStatusStringToInt
  \/ CallToGitChangeResult
  \/ CallBranchesFilter
  \/ CallToPullRequestResult

SpecFunctions == InitFunctions /\ [][NextFunctions]_vars

----------------------------------------------------------------------------
(* Properties of the enablement gate *)

\* the spans of the override string between two commas (or an end)
TokenSpans(e) ==
  { sp \in (1..(Len(e) + 1)) \X (0..Len(e)) :
      /\ sp[2] >= sp[1] - 1
      /\ (sp[1] = 1 \/ e[sp[1] - 1] = Comma)
      /\ (sp[2] = Len(e) \/ e[sp[2] + 1] = Comma)
      /\ \A k \in sp[1]..sp[2] : e[k] # Comma }

SpanName(e, sp) == Chars(Trim(SubSeq(e, sp[1], sp[2])))

\* the trimmed tokens of the override string
TokenNames(e) == { SpanName(e, sp) : sp \in TokenSpans(e) }

CategoryNames == DOMAIN TOOLS_CATEGORY_MAP
Catalog == AllCategoryTools(TOOLS_CATEGORY_MAP)

\* the tools a set of tokens addresses by category
ToolsOfNamedCategories(names) ==
  UNION { ObjectValues(TOOLS_CATEGORY_MAP[c]) : c \in names \cap CategoryNames }

\* C1: allow-list variant: the registered names are exactly (defaults \cup
\* literal tool tokens \cup tools of the categories named) within the catalog;
\* every other catalog tool is in disabledTools and is not registered.
C1_AllowListRegisteredSet ==
  (variant = "allow" /\ gpc = "done") =>
    LET names == TokenNames(env)
        wanted == (Range(DEFAULT_ENABLED_TOOLS) \cup names \cup ToolsOfNamedCategories(names))
                    \cap Catalog
    IN /\ registered = wanted
       /\ disabledTools = Catalog \ wanted

C1_Witness ==
  /\ variant = "allow"
  /\ gpc = "done"
  /\ {"category_search", "get_azure_devops_pull_request_by_id"} \subseteq TokenNames(env)
  /\ "search_azure_devops_workitem" \in registered
  /\ "repo_create_pull_request" \in disabledTools

C2Override == << "category_repo", Comma, "get_azure_devops_pull_request_by_id" >>

\* C2 as stated: with "category_repo,get_azure_devops_pull_request_by_id" every
\* repo tool is enabled and every tool of every other category is disabled.
C2_OnlyRepoCategoryEnabled ==
  (variant = "allow" /\ gpc = "done" /\ env = C2Override) =>
    /\ ObjectValues(REPO_TOOLS) \subseteq registered
    /\ \A c \in CategoryNames \ {"category_repo"} :
         ObjectValues(TOOLS_CATEGORY_MAP[c]) \cap registered = {}

\* C2 amended: with that override every repo tool is enabled, and of every
\* other category exactly the default-enabled tools are enabled.
C2_RepoCategoryAndDefaultsEnabled ==
  (variant = "allow" /\ gpc = "done" /\ env = C2Override) =>
    /\ ObjectValues(REPO_TOOLS) \subseteq registered
    /\ \A c \in CategoryNames \ {"category_repo"} :
         ObjectValues(TOOLS_CATEGORY_MAP[c]) \cap registered
           = ObjectValues(TOOLS_CATEGORY_MAP[c])
               \cap {"list_azure_devops_projects", "get_azure_devops_identity_ids",
                     "search_azure_devops_code"}

C2_Witness ==
  /\ variant = "allow"
  /\ gpc = "done"
  /\ env = C2Override
  /\ "repo_resolve_comment" \in registered
  /\ "search_azure_devops_wiki" \notin registered

\* C3: allow-list variant: with the empty override string the enabled tools
\* are exactly the ten names of the static default list.
C3_EmptyOverrideEnablesDefaults ==
  (variant = "allow" /\ gpc = "done" /\ env = << >>) =>
    /\ registered =
         { "list_azure_devops_projects", "get_azure_devops_identity_ids",
           "search_azure_devops_code", "get_azure_devops_repositories",
           "get_azure_devops_pull_request_by_id", "get_azure_devops_changes_by_commit",
           "get_azure_devops_content_by_objectid", "get_azure_devops_item_content_by_commit",
           "list_azure_devops_pull_request_threads",
           "list_azure_devops_pull_request_comments_by_thread" }
    /\ Catalog \ disabledTools = registered

C3_Witness ==
  /\ variant = "allow"
  /\ gpc = "done"
  /\ env = << >>
  /\ "get_azure_devops_repositories" \in registered
  /\ "repo_create_pull_request" \in disabledTools

\* C4: allow-list variant: no default-enabled tool is ever in the disabled
\* set, and every default-enabled tool ends up registered.
C4_DefaultsNeverDisabled ==
  (variant = "allow" /\ gpc # "start") =>
    /\ Range(DEFAULT_ENABLED_TOOLS) \cap disabledTools = {}
    /\ gpc = "done" => Range(DEFAULT_ENABLED_TOOLS) \subseteq registered

C4_Witness ==
  /\ variant = "allow"
  /\ gpc = "done"
  /\ "category_search" \in TokenNames(env)
  /\ "category_repo" \notin TokenNames(env)
  /\ "get_azure_devops_repositories" \in registered
  /\ "list_azure_devops_projects" \in registered

\* C5 as stated: deny-list variant: a catalog tool is registered iff it is
\* neither a literal token nor in a category named by a token, for every
\* family, core and search included.
C5_DenyListGatesEveryFamily ==
  (variant = "deny" /\ gpc = "done") =>
    LET names == TokenNames(env)
    IN \A t \in Catalog :
         t \in registered <=> ~(t \in names \/ t \in ToolsOfNamedCategories(names))

\* a token that is neither a category name nor a catalog tool name
Inert(name) == name \notin CategoryNames /\ name \notin Catalog

\* the override string without the token at span sp and one comma beside it
RemoveSpan(e, sp) ==
  IF sp[2] < Len(e) THEN SubSeq(e, 1, sp[1] - 1) \o SubSeq(e, sp[2] + 2, Len(e))
  ELSE IF sp[1] > 1 THEN SubSeq(e, 1, sp[1] - 2)
  ELSE << >>

InertWords == { "list_pull_requests_by_repo", "Category_Repo", "" }

\* C6: both variants: removing an inert token from the override string, or
\* adding one at either end, leaves the set of registered tools unchanged.
C6_UnknownTokensInert ==
  gpc = "done" =>
    /\ \A sp \in TokenSpans(env) :
         Inert(SpanName(env, sp)) => RegisteredBy(variant, RemoveSpan(env, sp)) = registered
    /\ \A w \in InertWords :
         /\ RegisteredBy(variant, env \o << Comma, w >>) = registered
         /\ RegisteredBy(variant, << w, Comma >> \o env) = registered

C6_Witness ==
  /\ variant = "allow"
  /\ gpc = "done"
  /\ "list_pull_requests_by_repo" \in TokenNames(env)
  /\ "category_search" \in TokenNames(env)
  /\ "search_azure_devops_wiki" \in registered
  /\ "repo_list_pull_requests_by_repo" \notin registered

\* the places of the override string where a blank pads a token
PadPositions(e) ==
  { p \in 0..Len(e) : p = 0 \/ p = Len(e) \/ e[p] = Comma \/ e[p + 1] = Comma }

InsertBlank(e, p) == SubSeq(e, 1, p) \o << Blank >> \o SubSeq(e, p + 1, Len(e))

\* C7: both variants: a blank added before or after any token of the
\* override string leaves the disabled set unchanged.
C7_TokensTrimmed ==
  gpc # "start" =>
    \A p \in PadPositions(env) :
      DisabledToolsOf(variant, InsertBlank(env, p)) = disabledTools

C7_Witness ==
  /\ variant = "deny"
  /\ gpc = "done"
  /\ env = << Blank, "category_repo", Blank, Blank >>
  /\ disabledTools = ObjectValues(REPO_TOOLS)
  /\ "repo_create_pull_request" \notin registered

----------------------------------------------------------------------------
(* Properties of the tool handlers *)

\* the one text of an envelope
TextOf(e) == e.content[1].text

\* a plain diagnostic string that is not empty
IsMessage(text) == text.kind = "string" /\ "str" \in DOMAIN text /\ text.str # ""

\* C8 as stated: whenever the connection supplier or an upstream call of a
\* handler fails, the handler returns an envelope with isError set and a
\* readable message; no invocation ends in a propagated exception.
C8_FailuresBecomeErrorEnvelopes ==
  failedAt # "none" =>
    /\ hpc # "thrown"
    /\ hpc = "returned" =>
         /\ "isError" \in DOMAIN envelope
         /\ envelope.isError
         /\ IsMessage(TextOf(envelope))

\* C9: get_azure_devops_pull_request_by_id: when getCommitDiffs fails the
\* handler has returned one error-flagged envelope whose only content is the
\* diagnostic message, never the pull request and commits fetched before.
C9_DiffFailureIsErrorEnvelope ==
  (tool = REPO_TOOLS.get_azure_devops_pull_request_by_id /\ failedAt = "getCommitDiffs") =>
    /\ hpc = "returned"
    /\ DOMAIN envelope = {"content", "isError"}
    /\ envelope.isError
    /\ Len(envelope.content) = 1
    /\ TextOf(envelope) \in { Str("upstream failure"), Str("Failed to get pull request.") }

C9_Witness ==
  /\ tool = REPO_TOOLS.get_azure_devops_pull_request_by_id
  /\ failedAt = "getCommitDiffs"
  /\ hpc = "returned"
  /\ vals["getPullRequest"] = SamplePullRequest
  /\ vals["getPullRequestCommits"] = Arr(<< SampleCommit >>)
  /\ envelope = ErrorEnvelope(Str("upstream failure"))

\* C10 as stated: every value a handler returns is an envelope with exactly
\* one content block of type text whose text is a string, plus at most an
\* isError flag.
C10_EnvelopeHasOneTextString ==
  hpc = "returned" =>
    /\ DOMAIN envelope \subseteq {"content", "isError"}
    /\ Len(envelope.content) = 1
    /\ envelope.content[1].type = "text"
    /\ TextOf(envelope).kind = "string"

----------------------------------------------------------------------------
(* Properties of sorting and pagination *)

PaginatingTools ==
  { REPO_TOOLS.get_azure_devops_repositories,
    REPO_TOOLS.list_azure_devops_pull_request_threads,
    REPO_TOOLS.list_azure_devops_pull_request_comments_by_thread }

\* the upstream call whose result tool t paginates
ListCall(t) ==
  CASE t = REPO_TOOLS.get_azure_devops_repositories -> "getRepositories"
    [] t = REPO_TOOLS.list_azure_devops_pull_request_threads -> "getThreads"
    [] t = REPO_TOOLS.list_azure_devops_pull_request_comments_by_thread -> "getComments"

\* the sorted sequence tool t slices
SortedOf(t, a, v) ==
  IF t = REPO_TOOLS.get_azure_devops_repositories
  THEN ArraySort("name", getRepositoriesResult(v, a).items)
  ELSE ArraySort("id", v[ListCall(t)].items)

\* a paginating handler has returned a page of a collection upstream returned
PageReturned ==
  /\ hpc = "returned"
  /\ tool \in PaginatingTools
  /\ "isError" \notin DOMAIN envelope
  /\ vals[ListCall(tool)] # Undefined

ItemsOf(e) == TextOf(e).json.items

\* the elements of sorted at offsets [skip, skip + top)
Offsets(sorted, skip, top) ==
  LET left == IF Len(sorted) > skip THEN Len(sorted) - skip ELSE 0
      count == IF top < left THEN top ELSE left
  IN [ i \in 1..count |-> sorted[skip + i] ]

\* the page the handler of t returns for skip, everything else as in a
PageAt(t, a, v, skip) == ItemsOf(Success(t, [ a EXCEPT !.skip = skip ], v))

\* the pages for skip, skip + top, ... up to the end of the collection, concatenated
RECURSIVE PagesFrom(_, _, _, _)
PagesFrom(t, a, v, skip) ==
  IF skip >= Len(SortedOf(t, a, v)) THEN << >>
  ELSE PageAt(t, a, v, skip) \o PagesFrom(t, a, v, skip + a.top)

C12_SliceArgumentsNonNegative ==
  PageReturned =>
    /\ args.skip >= 0
    /\ args.top >= 0
    /\ ItemsOf(envelope) = Offsets(SortedOf(tool, args, vals), args.skip, args.top)

----------------------------------------------------------------------------
(* Properties of branch listing *)

BranchListingTools == { REPO_TOOLS.list_branches_by_repo, REPO_TOOLS.list_my_branches_by_repo }

\* a branch listing handler has returned the branches of refs upstream returned
BranchesReturned ==
  /\ hpc = "returned"
  /\ tool \in BranchListingTools
  /\ vals["getRefs"] # Undefined

\* the names, without the namespace, of the refs under refs/heads/, in the
\* order of refs
RECURSIVE BranchNames(_)
BranchNames(refs) ==
  IF refs = << >> THEN << >>
  ELSE LET ref == Head(refs)
       IN IF ref.name # Undefined /\ Len(ref.name.lex) = 2 /\ ref.name.lex[1] = "refs/heads/"
          THEN << ref.name.lex[2] >> \o BranchNames(Tail(refs))
          ELSE BranchNames(Tail(refs))

\* names without its first occurrence of name
RECURSIVE Without(_, _)
Without(names, name) ==
  IF names = << >> THEN << >>
  ELSE IF Head(names) = name THEN Tail(names)
  ELSE << Head(names) >> \o Without(Tail(names), name)

\* names in descending order: the greatest first, then the rest
RECURSIVE Descending(_)
Descending(names) ==
  IF names = << >> THEN << >>
  ELSE LET greatest == CHOOSE n \in Range(names) : \A m \in Range(names) : NameRank(n) >= NameRank(m)
       IN << greatest >> \o Descending(Without(names, greatest))

\* C13: a branch listing is the names of the refs under refs/heads/, that
\* prefix removed, in descending order, cut to the first top of them; for
\* refs/heads/main, refs/heads/feature/x, refs/tags/v1 and top = 10 it is
\* main, feature/x
C13_BranchListing ==
  BranchesReturned =>
    /\ LET wanted == Descending(BranchNames(vals["getRefs"].items))
           count == IF args.top < Len(wanted) THEN args.top ELSE Len(wanted)
       IN ItemsOf(envelope) = [ i \in 1..count |-> Str(wanted[i]) ]
    /\ (vals["getRefs"] = ExampleRefs /\ args.top = 10) =>
         ItemsOf(envelope) = << Str("main"), Str("feature/x") >>

C13_Witness ==
  /\ BranchesReturned
  /\ tool = REPO_TOOLS.list_branches_by_repo
  /\ vals["getRefs"] =
       Arr(<< [ name |-> StrLex(<< "refs/tags/", "v1" >>), objectId |-> Str("3") ],
              [ name |-> StrLex(<< HeadsPrefix, "feature/x" >>), objectId |-> Str("2") ] >>)
  /\ args.top = 10
  /\ ItemsOf(envelope) = << Str("feature/x") >>

----------------------------------------------------------------------------
(* Properties of the sort orders *)

\* items in the order given by the permutation p of its indices
Permuted(items, p) == [ i \in 1..Len(items) |-> items[p[i]] ]

\* the repository handler has returned a page
RepositoriesReturned ==
  /\ PageReturned
  /\ tool = REPO_TOOLS.get_azure_devops_repositories

\* C14: the sequence the repository handler slices is in ascending order of
\* name, and is the same whatever the order in which upstream returned the
\* repositories, also when some of them have no name
C14_RepositoriesAscendingByName ==
  RepositoriesReturned =>
    LET sorted == SortedOf(tool, args, vals)
        upstream == vals["getRepositories"].items
    IN /\ \A i, j \in 1..Len(sorted) :
            (i < j /\ sorted[i].name # Undefined /\ sorted[j].name # Undefined) =>
              NameRank(sorted[i].name.str) <= NameRank(sorted[j].name.str)
       /\ \A p \in Permutations(1..Len(upstream)) :
            SortedOf(tool, args, [ vals EXCEPT !["getRepositories"] = Arr(Permuted(upstream, p)) ])
              = sorted

\* the id an item is ordered by
IdKey(item) == IF item.id = Undefined THEN 0 ELSE item.id.n

\* items without the item at index k
DropAt(items, k) == SubSeq(items, 1, k - 1) \o SubSeq(items, k + 1, Len(items))

\* items in ascending order of IdKey, items of equal key in their given order
RECURSIVE AscendingById(_)
AscendingById(items) ==
  IF items = << >> THEN << >>
  ELSE LET least == CHOOSE k \in 1..Len(items) :
                      /\ \A m \in 1..Len(items) : IdKey(items[k]) <= IdKey(items[m])
                      /\ \A m \in 1..(k - 1) : IdKey(items[m]) > IdKey(items[k])
       IN << items[least] >> \o AscendingById(DropAt(items, least))

\* the thread or comment handler has returned a page for an accepted window
ThreadsOrCommentsReturned ==
  /\ PageReturned
  /\ tool # REPO_TOOLS.get_azure_devops_repositories
  /\ args.skip >= 0

\* C15: the page of threads or comments is the [skip, skip + top) block of the
\* upstream items put in ascending order of id, a missing id counting as 0
C15_ThreadsAscendingById ==
  ThreadsOrCommentsReturned =>
    ItemsOf(envelope) = Offsets(AscendingById(vals[ListCall(tool)].items), args.skip, args.top)

C15_Witness ==
  /\ ThreadsOrCommentsReturned
  /\ tool = REPO_TOOLS.list_azure_devops_pull_request_comments_by_thread
  /\ vals["getComments"] = Arr(<< Identified(Num(1)), Identified(Undefined) >>)
  /\ args.skip = 0 /\ args.top = 2
  /\ ItemsOf(envelope) = << Identified(Undefined), Identified(Num(1)) >>

----------------------------------------------------------------------------
(* Properties of the helper functions *)

\* pullRequestStatusStringToInt has been applied
StatusTranslated ==
  /\ fn = "pullRequestStatusStringToInt"
  /\ fnResult # NoEnvelope

\* the result is the explicit error for an unknown token
IsUnknownStatusError(result, token) ==
  /\ result.kind = "error"
  /\ result.message = "Unknown pull request status: " \o token

\* C16 as stated: the five tokens translate to the upstream codes, "active"
\* to 3, and every other token raises an explicit error
C16_StatusTranslationActiveIs3 ==
  StatusTranslated =>
    CASE fnArg = "abandoned" -> fnResult = Num(2)
      [] fnArg = "active" -> fnResult = Num(3)
      [] fnArg = "all" -> fnResult = Num(4)
      [] fnArg = "completed" -> fnResult = Num(3)
      [] fnArg = "notSet" -> fnResult = Num(0)
      [] OTHER -> IsUnknownStatusError(fnResult, fnArg)

\* C16: the five tokens translate to the upstream codes of the members of
\* the same name, "active" to 1, the code of Active, and every other token
\* raises an explicit error
C16_StatusTranslation ==
  StatusTranslated =>
    CASE fnArg = "abandoned" -> fnResult = Num(2)
      [] fnArg = "active" -> fnResult = Num(1)
      [] fnArg = "all" -> fnResult = Num(4)
      [] fnArg = "completed" -> fnResult = Num(3)
      [] fnArg = "notSet" -> fnResult = Num(0)
      [] OTHER -> IsUnknownStatusError(fnResult, fnArg)

C16_Witness ==
  /\ StatusTranslated
  /\ fnArg = "merged"
  /\ fnResult = Error("Unknown pull request status: merged")

\* toGitChangeResult has been applied
ChangeProjected ==
  /\ fn = "toGitChangeResult"
  /\ fnResult # NoEnvelope

\* the numeric values of the members of the upstream change-type enumeration
ChangeTypeMembers == { 0, 1, 2, 4, 8, 16, 32, 64, 128, 256, 512, 1024, 2048, 4096, 8191 }

\* C17: the projection renders the code of every member of the change-type
\* enumeration, the member of value 0 included, as the name of that member,
\* and an undefined change type as undefined
C17_ChangeTypeRenderedAsName ==
  ChangeProjected =>
    IF fnArg.changeType = Undefined THEN fnResult.changeType = Undefined
    ELSE fnArg.changeType.n \in ChangeTypeMembers =>
           /\ fnResult.changeType.kind = "string"
           /\ fnResult.changeType = VersionControlChangeType(fnArg.changeType.n)

----------------------------------------------------------------------------
(* Properties of absent results *)

\* the handler has returned after upstream call c resolved
ReturnedAfter(t, c) ==
  /\ hpc = "returned"
  /\ tool = t
  /\ c \in DOMAIN vals

IsErrorEnvelope(e) == "isError" \in DOMAIN e /\ e.isError

\* no ref upstream returned is the branch asked for
BranchAbsent ==
  \/ vals["getRefs"] = Undefined
  \/ \A i \in 1..Len(vals["getRefs"].items) :
       vals["getRefs"].items[i].name # StrLex(<< HeadsPrefix, args.branchName >>)

\* C18: when the one entity asked for is absent upstream (the branch of
\* get_branch_by_name, the changes of a commit, the pull request of
\* get_azure_devops_pull_request_by_id), the envelope returned has isError set
C18_AbsentEntityIsError ==
  /\ (ReturnedAfter(REPO_TOOLS.get_branch_by_name, "getRefs") /\ BranchAbsent)
       => IsErrorEnvelope(envelope)
  /\ (ReturnedAfter(REPO_TOOLS.get_azure_devops_changes_by_commit, "getChanges")
        /\ vals["getChanges"] = Undefined)
       => IsErrorEnvelope(envelope)
  /\ (ReturnedAfter(REPO_TOOLS.get_azure_devops_pull_request_by_id, "getPullRequest")
        /\ vals["getPullRequest"] = Undefined)
       => IsErrorEnvelope(envelope)

\* upstream returned an array of repositories none of which the query matches
NoRepositoryMatches ==
  /\ vals["getRepositories"] # Undefined
  /\ FilteredRepositories(vals["getRepositories"], args.repositoryNameOrId).items = << >>

\* C19: when the project has no repository, or the filter matches none, the
\* repository handler returns the empty list without error flag
C19_NoMatchIsEmptyList ==
  (ReturnedAfter(REPO_TOOLS.get_azure_devops_repositories, "getRepositories") /\ NoRepositoryMatches)
    => /\ ~IsErrorEnvelope(envelope)
       /\ TextOf(envelope) = JSONstringify(Arr(<< >>))

----------------------------------------------------------------------------
(* Properties of state shared between invocations *)

\* the invocation is suspended at an await after which it reads the
\* organization: the token request, or the token request inside getClient
AwaitsBeforeOrganizationRead ==
  /\ hpc = "running"
  /\ site \in { "getToken", "getClient", "connectionProvider" }

\* C20: nothing an invocation reads is written by another handler while the
\* invocation is suspended at an await: the organization does not change
\* under an invocation that has yet to read it
C20_NoWriteWhileSuspended ==
  [][AwaitsBeforeOrganizationRead => orgName' = orgName]_vars

----------------------------------------------------------------------------
(* Properties of the order of upstream calls *)

\* how many times the invocation has called site s
SiteCount(s) == Cardinality({ i \in 1..Len(calls) : calls[i].site = s })

\* how many calls of site s the invocation is meant to make
IntendedCalls(s) ==
  IF s = "deletePullRequestReviewer" THEN Len(args.reviewerIds)
  ELSE IF s = "getItem" THEN Len(TopResults(args, vals))
  ELSE 1

\* C21: no call site is called more often than the invocation is meant to,
\* and the first failed upstream call ends the invocation with a failure, no
\* further upstream call being issued
C21_FirstFailureEndsInvocation ==
  /\ \A i \in 1..Len(calls) : SiteCount(calls[i].site) <= IntendedCalls(calls[i].site)
  /\ failedAt # "none" =>
       /\ hpc \in { "returned", "thrown" }
       /\ hpc = "returned" => IsErrorEnvelope(envelope)
       /\ calls[Len(calls)].site = failedAt

\* the upstream calls of the composite pull request lookup, in their order
PullRequestLookupOrder ==
  << "connectionProvider", "getGitApi", "getPullRequest", "getPullRequestCommits", "getCommitDiffs" >>

\* the invocation has called site s
Called(s) == \E i \in 1..Len(calls) : calls[i].site = s

\* C22: the composite pull request lookup calls upstream in sequence, each
\* call issued only when the one before has completed, so that at most one
\* is in flight; the commits are asked for only when a pull request was
\* returned, and the diff only when in addition a commit was returned
C22_PullRequestLookupSequential ==
  tool = REPO_TOOLS.get_azure_devops_pull_request_by_id =>
    /\ Len(calls) <= Len(PullRequestLookupOrder)
    /\ \A i \in 1..Len(calls) : calls[i].site = PullRequestLookupOrder[i]
    /\ \A i \in 1..(Len(calls) - 1) : calls[i].site \in DOMAIN vals
    /\ hpc = "running" => site = calls[Len(calls)].site /\ site \notin DOMAIN vals
    /\ Called("getPullRequestCommits") => vals["getPullRequest"] # Undefined
    /\ Called("getCommitDiffs") =>
         /\ vals["getPullRequest"] # Undefined
         /\ vals["getPullRequestCommits"] # Undefined
         /\ Len(vals["getPullRequestCommits"].items) >= 1

C22_Witness ==
  /\ tool = REPO_TOOLS.get_azure_devops_pull_request_by_id
  /\ hpc = "running"
  /\ site = "getCommitDiffs"
  /\ Len(calls) = 5
  /\ vals["getPullRequest"] = SparsePullRequest
  /\ vals["getPullRequestCommits"] = Arr(<< SampleCommit >>)

----------------------------------------------------------------------------
(* Properties of configuration *)

\* C23: configuration calls nothing upstream: until configureAllTools has
\* returned no provider has been invoked and no handler has run, and a
\* provider is invoked only by a handler that has been invoked
C23_NoUpstreamCallAtConfiguration ==
  /\ gpc # "done" => calls = << >> /\ hpc = "idle" /\ tool = "none"
  /\ calls # << >> => tool \in registered

\* the allow-list build has registered the default repo tools and is about to
\* configure the search family
C23_Witness ==
  /\ gpc = "search"
  /\ variant = "allow"
  /\ REPO_TOOLS.get_azure_devops_repositories \in registered
  /\ calls = << >>

\* the families whose registrar has returned
FamiliesConfigured ==
  IF gpc = "start" THEN {}
  ELSE { Families[i] : i \in { j \in DOMAIN Families :
           gpc = "done" \/ \E k \in DOMAIN Families : Families[k] = gpc /\ j < k } }

DisabledSetLifecycle ==
  variant = "allow" =>
    /\ gpc = "start" => registered = {}
    /\ gpc # "start" => disabledTools = DisabledToolsOf(variant, env)
    /\ registered = UNION { ConfigureFamily(f, disabledTools) : f \in FamiliesConfigured }

\* C24: in the allow-list build the disabled set is complete before the first
\* registrar runs (nothing is registered while it is being computed), every
\* registrar that has run has registered exactly its tools outside that one
\* set, and once computed the set is never changed again, neither by a
\* registrar nor by a handler step
C24_DisabledSetComputedOnce ==
  /\ []DisabledSetLifecycle
  /\ [][variant = "allow" /\ gpc # "start" => disabledTools' = disabledTools]_vars

C24_Witness ==
  /\ variant = "allow"
  /\ gpc = "done"
  /\ hpc = "returned"
  /\ disabledTools # {}
  /\ SEARCH_TOOLS.search_azure_devops_wiki \in disabledTools
  /\ REPO_TOOLS.get_azure_devops_repositories \in registered

\* the invocation has issued the pull request status update
StatusUpdateSent ==
  /\ tool = REPO_TOOLS.update_pull_request_status
  /\ Called("updatePullRequest")

\* C26: the status code the status update sends upstream is the code
\* pullRequestStatusStringToInt gives for the same token, for each of the two
\* tokens the tool accepts
C26_StatusUpdateAgreesWithTranslator ==
  StatusUpdateSent =>
    \A i \in 1..Len(calls) :
      calls[i].site = "updatePullRequest" =>
        calls[i].request.status = pullRequestStatusStringToInt(args.status)

\* the invocation has built its connection and read the organization for
\* the request URL
ConnectionAndUrlOrganizationRead ==
  /\ tool \in ObjectValues(SEARCH_TOOLS)
  /\ "getClient" \in DOMAIN vals
  /\ "getOrgName" \in DOMAIN vals

\* C27: in one search invocation the organization the connection was built
\* for by getClient is the organization getOrgName gives for the request URL,
\* whatever setOrgName calls are interleaved with the invocation
C27_ConnectionAndUrlSameOrganization ==
  ConnectionAndUrlOrganizationRead =>
    vals["getOrgName"] = Str(vals["getClient"].org)

----------------------------------------------------------------------------
(* Properties of the code search *)

IsGuidFilter(x) == TruthyStr(x) /\ validate(x.str)

\* every GUID-valued filter of the invocation has been resolved to an entity
FiltersResolved ==
  /\ "getGitApi" \in DOMAIN vals
  /\ IsGuidFilter(args.projectName) =>
       "getProject" \in DOMAIN vals /\ vals["getProject"] # Undefined
  /\ IsGuidFilter(args.repositoryName) =>
       "getRepository" \in DOMAIN vals /\ vals["getRepository"] # Undefined

RepositoryWithoutProject ==
  TruthyStr(RepoFilter(args, vals)) /\ ~TruthyStr(ProjectFilter(args, vals))

PathWithoutRepositoryAndProject ==
  /\ TruthyStr(args.path)
  /\ ~TruthyStr(RepoFilter(args, vals)) \/ ~TruthyStr(ProjectFilter(args, vals))

\* the request the invocation posted to the code search endpoint
FetchRequest == calls[CHOOSE i \in 1..Len(calls) : calls[i].site = "fetch"].request

\* C28: the code search posts its request only when the resolved filters are
\* a valid combination; a repository filter without a project filter, or a
\* path filter without both, ends the invocation in an error envelope that
\* carries the check's message, with no request posted; a valid combination
\* is posted, and a project recovered from a repository given by GUID is the
\* project filter of the posted request
C28_InvalidFiltersRejectedBeforeRequest ==
  tool = SEARCH_TOOLS.search_azure_devops_code =>
    /\ Called("fetch") =>
         /\ FiltersResolved
         /\ ~RepositoryWithoutProject
         /\ ~PathWithoutRepositoryAndProject
    /\ FiltersResolved /\ (RepositoryWithoutProject \/ PathWithoutRepositoryAndProject) =>
         /\ hpc = "returned"
         /\ IsErrorEnvelope(envelope)
         /\ TextOf(envelope) =
              (IF RepositoryWithoutProject
               THEN Str("project filter is reuiqred when repository filter is used.")
               ELSE Str("Both project and repository filter are reuiqred when path filter is used."))
    /\ FiltersResolved /\ ~RepositoryWithoutProject /\ ~PathWithoutRepositoryAndProject =>
         Called("fetch")
    /\ ( /\ Called("fetch")
         /\ IsGuidFilter(args.repositoryName)
         /\ vals["getRepository"].project # Undefined ) =>
         FetchRequest.body.filters.Project = Arr(<< vals["getRepository"].project.name >>)

C28_Witness ==
  /\ tool = SEARCH_TOOLS.search_azure_devops_code
  /\ args.path = Str("/src")
  /\ args.projectName = Str("proj")
  /\ args.repositoryName = Undefined
  /\ hpc = "returned"
  /\ TextOf(envelope) = Str("Both project and repository filter are reuiqred when path filter is used.")
  /\ ~Called("fetch")

\* the code search has returned its results
CodeSearchReturned ==
  /\ tool = SEARCH_TOOLS.search_azure_devops_code
  /\ hpc = "returned"
  /\ ~IsErrorEnvelope(envelope)

\* the results of the upstream answer, none when it carries no array
UpstreamResults ==
  LET results == vals["responseText"].json.results
  IN IF results = Undefined THEN << >> ELSE results.items

\* the results handed to fetchCombinedResults, and the entries it returned
GivenResults == TopResults(args, vals)
ReturnedEntries == TextOf(envelope).concat[2].json.items

\* the requests of the item fetches, in the order they were issued
RECURSIVE ItemRequests(_)
ItemRequests(log) ==
  IF log = << >> THEN << >>
  ELSE IF Head(log).site = "getItem" THEN << Head(log).request >> \o ItemRequests(Tail(log))
  ELSE ItemRequests(Tail(log))

\* the item fetches the given results call for, in order
RECURSIVE RequestsFor(_)
RequestsFor(results) ==
  IF results = << >> THEN << >>
  ELSE IF HasIds(Head(results))
       THEN << [ repositoryId |-> Head(results).repository.id, path |-> Head(results).path,
                 project |-> Head(results).project.id,
                 version |-> Head(results).versions.items[1].changeId ] >>
              \o RequestsFor(Tail(results))
       ELSE RequestsFor(Tail(results))

IsItemEntry(e) == DOMAIN e = {"gitItem"}
IsFetchErrorEntry(e) ==
  DOMAIN e = {"error"} /\ e.error \in { Str(ErrText(err)) : err \in ErrVals }

EveryResultHasItsEntry ==
  CodeSearchReturned =>
    /\ args.top >= 0 =>
         GivenResults = SubSeq(UpstreamResults, 1,
                               IF args.top < Len(UpstreamResults) THEN args.top
                               ELSE Len(UpstreamResults))
    /\ Len(ReturnedEntries) = Len(GivenResults)
    /\ \A i \in 1..Len(GivenResults) :
         IF HasIds(GivenResults[i])
         THEN IsItemEntry(ReturnedEntries[i]) \/ IsFetchErrorEntry(ReturnedEntries[i])
         ELSE ReturnedEntries[i] = MissingIds(GivenResults[i])
    /\ ItemRequests(calls) = RequestsFor(GivenResults)
    /\ failedAt = "getItem" <=>
         \E i \in 1..Len(GivenResults) :
           HasIds(GivenResults[i]) /\ IsFetchErrorEntry(ReturnedEntries[i])

ItemFailureDoesNotEndSearch ==
  (tool = SEARCH_TOOLS.search_azure_devops_code /\ failedAt = "getItem") =>
    /\ hpc \in { "running", "returned" }
    /\ hpc = "returned" => ~IsErrorEnvelope(envelope)

IsPrefix(s, t) == Len(s) <= Len(t) /\ SubSeq(t, 1, Len(s)) = s

\* C29: the code search returns one entry for each result given to
\* fetchCombinedResults, in the order given, the results given being the
\* first min($top, n) of the n upstream results for a $top that is not
\* negative: an item entry or an error entry for a result with its ids, the
\* missing-id error entry for a result without; every result with its ids is
\* fetched exactly once and in order whatever happened to the ones before,
\* a failed fetch leaves the invocation running and the envelope unflagged,
\* and no step takes an entry back
C29_OneEntryPerSearchResult ==
  /\ [](EveryResultHasItsEntry /\ ItemFailureDoesNotEndSearch)
  /\ [][(tool = SEARCH_TOOLS.search_azure_devops_code /\ "getItem" \in DOMAIN vals) =>
          /\ "getItem" \in DOMAIN vals'
          /\ IsPrefix(vals["getItem"].items, vals'["getItem"].items)]_vars

C29_Witness ==
  /\ CodeSearchReturned
  /\ failedAt = "getItem"
  /\ args.top = 2
  /\ Len(ReturnedEntries) = 2
  /\ HasIds(GivenResults[1])
  /\ IsFetchErrorEntry(ReturnedEntries[1])
  /\ IsItemEntry(ReturnedEntries[2])

----------------------------------------------------------------------------
(* Properties of the pull request projection *)

PullRequestProjected ==
  /\ fn = "toPullRequestResult"
  /\ fnResult # NoEnvelope

\* o[f] of JavaScript: undefined for a property the object does not have
Property(o, f) == IF f \in DOMAIN o THEN o[f] ELSE Undefined

\* the fields PullRequestResult picks from the upstream pull request
RetainedPullRequestFields ==
  { "closedDate", "creationDate", "description", "pullRequestId", "sourceRefName",
    "status", "targetRefName", "title", "workItemRefs", "isDraft" }

IdentityReduced(identity, result) ==
  IF identity = Undefined THEN result = Undefined
  ELSE /\ DOMAIN result = { "id", "displayName", "uniqueName" }
       /\ \A f \in DOMAIN result : result[f] = identity[f]

\* C30: every field PullRequestResult declares as retained has in the
\* projection the value it has upstream, isDraft included, and closedBy and
\* createdBy are reduced to id, displayName and uniqueName, an absent one
\* projected to an absent field
C30_EveryRetainedFieldCopied ==
  PullRequestProjected =>
    /\ \A f \in RetainedPullRequestFields : Property(fnResult, f) = fnArg[f]
    /\ IdentityReduced(fnArg.closedBy, Property(fnResult, "closedBy"))
    /\ IdentityReduced(fnArg.createdBy, Property(fnResult, "createdBy"))
====
